---- MODULE Spec2Model ----
(***************************************************************************)
(* A model of the fiber-face analysis code of fiber_properties:            *)
(*   ImageAnalysis.py            the ImageAnalysis container and its four   *)
(*                               center/diameter estimators                 *)
(*   ModalNoise.py, FiberProperties/ModalNoise.py                           *)
(*                               the modal-noise dispatchers                *)
(*   fiber_properties/base_image.py   the BaseImage container               *)
(*                                                                         *)
(* Lengths are fixed-point numbers: an integer n stands for n/Scale pixels. *)
(* Python's None is the empty tuple and a present value v is <<v>>.         *)
(* Python strings are tuples of one-character strings.                      *)
(***************************************************************************)
EXTENDS Integers, Sequences, FiniteSets, TLC

VARIABLES
    image,      \* ImageAnalysis._filtered_image: rows 0..h-1 of columns 0..w-1
    threshold,  \* ImageAnalysis.threshold
    ia,         \* the fields of one ImageAnalysis object
    args,       \* the arguments of the running call
    frame,      \* the locals of the running golden-section search
    result,     \* what the last call returned or raised, and what it ran
    pc          \* position of the running operation

vars == <<image, threshold, ia, args, frame, result, pc>>

(***************************************************************************)
(* Bounds of the model                                                     *)
(***************************************************************************)
HalfScale == 2
MaxEdgeH == 2
MaxEdgeW == 3
MaxPixel == 2
MaxSearchSize == 7
MaxIters == 8

\* fixed-point units per pixel (even, so that halves of pixels are exact)
Scale == 2 * HalfScale

(***************************************************************************)
(* Python values                                                           *)
(***************************************************************************)
None == <<>>
Some(v) == <<v>>
IsNone(o) == o = <<>>
Val(o) == o[1]

Max2(a, b) == IF a >= b THEN a ELSE b
Min2(a, b) == IF a <= b THEN a ELSE b
Abs(a) == IF a >= 0 THEN a ELSE 0 - a
SetMax(S) == CHOOSE m \in S : \A n \in S : n <= m

ImageHeight(img) == Cardinality(DOMAIN img)
ImageWidth(img) == Cardinality(DOMAIN img[0])

\* all images of h rows and w columns with pixel values 0..MaxPixel
Images(h, w) == [0..(h-1) -> [0..(w-1) -> 0..MaxPixel]]

(***************************************************************************)
(* Edge method: ImageAnalysis.setFiberEdges, setFiberCenterEdgeMethod      *)
(***************************************************************************)
\* self._filtered_image[:, index].max()
ColumnMax(img, index) == SetMax({img[y][index] : y \in DOMAIN img})
\* self._filtered_image[index, :].max()
RowMax(img, index) == SetMax({img[index][x] : x \in DOMAIN img[index]})

\* One of the two scanning loops of setFiberEdges, from `index` on, with the
\* loop's two locals (left, right) or (top, bottom) as first and last.
RECURSIVE ScanEdges(_, _, _, _, _, _)
ScanEdges(maxAt, n, thr, index, first, last) ==
    IF index >= n THEN <<first, last>>
    ELSE IF first < 0
         THEN IF maxAt[index] > thr
              THEN ScanEdges(maxAt, n, thr, index + 1, index, last)
              ELSE ScanEdges(maxAt, n, thr, index + 1, first, last)
         ELSE IF maxAt[index] > thr
              THEN ScanEdges(maxAt, n, thr, index + 1, first, index)
              ELSE ScanEdges(maxAt, n, thr, index + 1, first, last)

FirstLast(maxAt, n, thr) == ScanEdges(maxAt, n, thr, 0, -1, -1)

\* setFiberEdges: the object after the call
setFiberEdges(self, img, thr) ==
    LET w == ImageWidth(img)
        h == ImageHeight(img)
        lr == FirstLast([x \in 0..(w-1) |-> ColumnMax(img, x)], w, thr)
        tb == FirstLast([y \in 0..(h-1) |-> RowMax(img, y)], h, thr)
    IN  [self EXCEPT !._left_edge = Some(lr[1]),
                     !._right_edge = Some(lr[2]),
                     !._top_edge = Some(tb[1]),
                     !._bottom_edge = Some(tb[2]),
                     !._fiber_diameter_edge =
                         Some(Scale * Max2(lr[2] - lr[1], tb[2] - tb[1]))]

\* (a + b) / 2.0 of two pixel indices, in fixed point
HalfSum(a, b) == (a + b) * HalfScale

\* setFiberCenterEdgeMethod: the object after the call
setFiberCenterEdgeMethod(self, img, thr) ==
    LET s == setFiberEdges(self, img, thr)
    IN  [s EXCEPT !._center_y_edge = Some(HalfSum(Val(s._top_edge), Val(s._bottom_edge))),
                  !._center_x_edge = Some(HalfSum(Val(s._left_edge), Val(s._right_edge)))]

\* the fields __init__ sets to None before the edge method runs (lines 38-44)
NewEdgeFields ==
    [_left_edge |-> None, _right_edge |-> None, _top_edge |-> None,
     _bottom_edge |-> None, _fiber_diameter_edge |-> None,
     _center_y_edge |-> None, _center_x_edge |-> None]

(***************************************************************************)
(* Fixed-point arithmetic of the golden-section searches                   *)
(***************************************************************************)
\* self._phi = (5 ** 0.5 - 1) / 2, as the fraction PhiNum / PhiDen
PhiNum == 618
PhiDen == 1000
\* np.pi, as the fraction PiNum / PiDen
PiNum == 355
PiDen == 113

\* a / b rounded to the nearest integer (b > 0), as float arithmetic rounds
RoundDiv(a, b) == (2 * a + b) \div (2 * b)
\* self._phi * d and (1 - self._phi) * d
MulPhi(d) == RoundDiv(PhiNum * d, PhiDen)
MulOneMinusPhi(d) == RoundDiv((PhiDen - PhiNum) * d, PhiDen)
\* v / 2.0
Half(v) == RoundDiv(v, 2)

\* the two interior points  lo + (1 - phi) * (hi - lo)  and  lo + phi * (hi - lo)
InnerLow(lo, hi) == lo + MulOneMinusPhi(hi - lo)
InnerHigh(lo, hi) == lo + MulPhi(hi - lo)

\* res = int(1.0 / tol), tol in fixed point
Resolution(tol) == Scale \div tol

(***************************************************************************)
(* The objective of the circle search.  removeCircle and getArraySum are   *)
(* methods of NumpyArrayHandler; they follow spec.md sections 4.1 and 4.3:  *)
(* the sum of the intensities outside the circle, a boundary pixel         *)
(* counting by the fraction of its res x res sub-pixels outside.  The      *)
(* value is kept as an integer: the sum times MaskRes(res)^2.              *)
(***************************************************************************)
\* the mask is defined for a resolution of at least 1
MaskRes(res) == IF res >= 1 THEN res ELSE 1

\* the number of the res x res sub-pixels of pixel (px, py) inside the circle
\* of center (x0, y0) and radius `radius` (both fixed point), boundary included
SubPixelsInside(px, py, x0, y0, radius, res) ==
    LET u == 2 * res
        inside(a, b) ==
            LET dx == u * Scale * px + Scale * (2 * a + 1 - res) - u * x0
                dy == u * Scale * py + Scale * (2 * b + 1 - res) - u * y0
            IN  dx * dx + dy * dy <= u * u * radius * radius
    IN  Cardinality({ab \in (0..(res-1)) \X (0..(res-1)) : inside(ab[1], ab[2])})

RECURSIVE SumOver(_, _)
SumOver(f, S) ==
    IF S = {} THEN 0
    ELSE LET e == CHOOSE e \in S : TRUE IN f[e] + SumOver(f, S \ {e})

\* getArraySum(removeCircle(image, x0, y0, radius, res)), times MaskRes(res)^2
RemovedCircleSum(img, x0, y0, radius, res) ==
    LET m == MaskRes(res)
        pixels == (0..(ImageHeight(img)-1)) \X (0..(ImageWidth(img)-1))
        outside == [p \in pixels |->
                      img[p[1]][p[2]] * (m * m - SubPixelsInside(p[2], p[1], x0, y0, radius, m))]
    IN  SumOver(outside, pixels)

(***************************************************************************)
(* Fixed-radius circle search: ImageAnalysis.setFiberCenterCircleMethod    *)
(* The frame f holds the locals of one call: radius, tol, res, x, y,       *)
(* array_sum, min_index, and iters, the number of loop iterations so far   *)
(* (counted up to MaxIters).  It also records evaluated, the slots         *)
(* <<j, i>> of array_sum that the latest pass of lines 564-569 or 599-604  *)
(* filled with a new sum.                                                  *)
(***************************************************************************)
Count(n) == IF n < MaxIters THEN n + 1 ELSE n

Arr4(a, b, c, d) == [k \in 0..3 |-> CASE k = 0 -> a [] k = 1 -> b [] k = 2 -> c [] OTHER -> d]

\* lines 535-540: approx - test_range clipped from below at radius, and
\* approx + test_range clipped from above at size - radius
ClipLow(v, radius) == IF v < radius THEN radius ELSE v
ClipHigh(v, size, radius) == IF v > size - radius THEN size - radius ELSE v

\* lines 531-560: the four x (or y) values of the initial bracket; approx is
\* the edge-method center coordinate, size the image width (height)
InitialBracket(approx, size, radius, test_range) ==
    LET lo == IF IsNone(test_range) THEN radius
              ELSE ClipLow(approx - Half(Val(test_range)), radius)
        hi == IF IsNone(test_range) THEN size - radius
              ELSE ClipHigh(approx + Half(Val(test_range)), size, radius)
    IN  Arr4(lo, InnerLow(lo, hi), InnerHigh(lo, hi), hi)

\* np.unravel_index(np.argmin(array_sum), (2, 2)): the first minimum in
\* row-major order, as <<row, column>>
ArgMin2x2(a) ==
    LET m == Min2(Min2(a[0][0], a[0][1]), Min2(a[1][0], a[1][1]))
    IN  IF a[0][0] = m THEN <<0, 0>>
        ELSE IF a[0][1] = m THEN <<0, 1>>
        ELSE IF a[1][0] = m THEN <<1, 0>>
        ELSE <<1, 1>>

\* np.amin(array_sum)
AMin2x2(a) == Min2(Min2(a[0][0], a[0][1]), Min2(a[1][0], a[1][1]))

\* lines 562-572: array_sum[j, i] of every interior corner (x[i+1], y[j+1])
AllCorners(img, x, y, radius, res) ==
    [j \in 0..1 |-> [i \in 0..1 |-> RemovedCircleSum(img, x[i+1], y[j+1], radius, res)]]

\* lines 525-572: the frame at the first test of the loop condition
CircleStart(self, img, radius, tol, test_range) ==
    LET res == Resolution(tol)
        x == InitialBracket(Val(self._center_x_edge), Scale * ImageWidth(img), radius, test_range)
        y == InitialBracket(Val(self._center_y_edge), Scale * ImageHeight(img), radius, test_range)
        start(array_sum) ==
            [radius |-> radius, tol |-> tol, res |-> res, x |-> x, y |-> y,
             array_sum |-> array_sum, min_index |-> ArgMin2x2(array_sum), iters |-> 0,
             evaluated |-> (0..1) \X (0..1)]
    IN  start(AllCorners(img, x, y, radius, res))

\* line 574: the loop condition
CircleContinue(f) == Abs(f.x[3] - f.x[0]) > f.tol /\ Abs(f.y[3] - f.y[0]) > f.tol

\* the shrink with both interior points placed anew
ShrinkPlacesBothAnew(v, side) ==
    IF side = 0
    THEN Arr4(v[0], InnerLow(v[0], v[2]), InnerHigh(v[0], v[2]), v[2])
    ELSE Arr4(v[1], InnerLow(v[1], v[3]), InnerHigh(v[1], v[3]), v[3])

\* lines 576-591: one axis of the bracket after the shrink toward `side`
Shrink(v, side) ==
    IF side = 0
    THEN Arr4(v[0], InnerLow(v[0], v[2]), v[1], v[2])
    ELSE Arr4(v[1], v[2], InnerHigh(v[1], v[3]), v[3])

\* the iteration with line 594 copying the sum of the opposite corner
CircleIterateKeepsOppositeSum(f, img) ==
    LET y == Shrink(f.y, f.min_index[1])
        x == Shrink(f.x, f.min_index[2])
        kept == <<1 - f.min_index[1], 1 - f.min_index[2]>>
        next(array_sum) ==
            [f EXCEPT !.x = x, !.y = y, !.array_sum = array_sum,
                      !.min_index = ArgMin2x2(array_sum), !.iters = Count(f.iters),
                      !.evaluated = {c \in (0..1) \X (0..1) : c[2] # kept[2] \/ c[1] # kept[1]}]
    IN  next([j \in 0..1 |-> [i \in 0..1 |->
                IF i # kept[2] \/ j # kept[1]
                THEN RemovedCircleSum(img, x[i+1], y[j+1], f.radius, f.res)
                ELSE f.array_sum[kept[1]][kept[2]]]])

\* lines 576-606: one iteration of the loop
CircleIterate(f, img) ==
    LET y == Shrink(f.y, f.min_index[1])
        x == Shrink(f.x, f.min_index[2])
        kept == <<1 - f.min_index[1], 1 - f.min_index[2]>>
        next(array_sum) ==
            [f EXCEPT !.x = x, !.y = y, !.array_sum = array_sum,
                      !.min_index = ArgMin2x2(array_sum), !.iters = Count(f.iters),
                      !.evaluated = {c \in (0..1) \X (0..1) : c[2] # kept[2] \/ c[1] # kept[1]}]
    IN  next([j \in 0..1 |-> [i \in 0..1 |->
                IF i # kept[2] \/ j # kept[1]
                THEN RemovedCircleSum(img, x[i+1], y[j+1], f.radius, f.res)
                ELSE f.array_sum[f.min_index[1]][f.min_index[2]]]])

\* lines 608-611: the object after the call
CircleStore(self, f) ==
    [self EXCEPT !._center_x_circle = Some(f.x[f.min_index[2] + 1]),
                 !._center_y_circle = Some(f.y[f.min_index[1] + 1]),
                 !._fiber_diameter_circle = Some(2 * f.radius),
                 !._array_sum_circle = Some(AMin2x2(f.array_sum))]

\* the loop run to its end
RECURSIVE CircleLoop(_, _)
CircleLoop(f, img) ==
    IF CircleContinue(f) THEN CircleLoop(CircleIterate(f, img), img) ELSE f

\* setFiberCenterCircleMethod(radius, tol, test_range): the object after the call
setFiberCenterCircleMethod(self, img, radius, tol, test_range) ==
    CircleStore(self, CircleLoop(CircleStart(self, img, radius, tol, test_range), img))

(***************************************************************************)
(* Joint radius search: ImageAnalysis.setFiberCenterRadiusMethod           *)
(* The frame g holds the locals of one call: tol, test_range (already      *)
(* halved, line 467), r, array_sum, min_index, and iters.  It also         *)
(* records searched, the radii that the latest pass of lines 481-483 or    *)
(* 498-500 ran the circle search at, in order.                             *)
(***************************************************************************)
\* the score without the area term
RadiusScoreWithoutArea(array_sum_circle, thr, radius, res) ==
    array_sum_circle * Scale * Scale * PiDen

\* self._array_sum_circle + self.threshold * np.pi * r**2, as an integer: the
\* value times MaskRes(res)^2 * Scale^2 * PiDen
RadiusScore(array_sum_circle, thr, radius, res) ==
    array_sum_circle * Scale * Scale * PiDen
        + thr * PiNum * radius * radius * MaskRes(res) * MaskRes(res)

\* lines 463-478: the four radii of the initial bracket
InitialRadii(img, test_range, approx_radius) ==
    LET lo == IF IsNone(test_range) THEN 0
              ELSE IF approx_radius - Half(Val(test_range)) < 0 THEN 0
              ELSE approx_radius - Half(Val(test_range))
        hi == IF IsNone(test_range)
              THEN HalfScale * Min2(ImageHeight(img), ImageWidth(img))
              ELSE approx_radius + Half(Val(test_range))
    IN  Arr4(lo, InnerLow(lo, hi), InnerHigh(lo, hi), hi)

\* np.argmin(array_sum) of the two scores: the first minimum
ArgMin2(a) == IF a[0] <= a[1] THEN 0 ELSE 1

\* lines 462-485: the object and the frame at the first test of the loop
\* condition; approx_radius is self.getFiberRadius() of line 466
RadiusStart(self, img, thr, tol, test_range, approx_radius) ==
    LET half_range == IF IsNone(test_range) THEN None ELSE Some(Half(Val(test_range)))
        r == InitialRadii(img, test_range, approx_radius)
        res == Resolution(tol)
        start(array_sum) ==
            [tol |-> tol, test_range |-> half_range, r |-> r,
             array_sum |-> array_sum, min_index |-> ArgMin2(array_sum), iters |-> 0,
             searched |-> <<r[1], r[2]>>]
        \* s1 and s2 are the object after the first and the second circle search
        scored(s1, s2) ==
            [self |-> s2,
             frame |-> start([k \in 0..1 |->
                          IF k = 0 THEN RadiusScore(Val(s1._array_sum_circle), thr, r[1], res)
                          ELSE RadiusScore(Val(s2._array_sum_circle), thr, r[2], res)])]
        second(s1) == scored(s1, setFiberCenterCircleMethod(s1, img, r[2], tol, half_range))
    IN  second(setFiberCenterCircleMethod(self, img, r[1], tol, half_range))

\* line 487: the loop condition
RadiusContinue(g) == Abs(g.r[3] - g.r[0]) > g.tol

\* the shrink with line 489 (r[3] = r[2]) left out
ShrinkRadiiKeepsUpperEnd(r, side) ==
    IF side = 0
    THEN Arr4(r[0], InnerLow(r[0], r[3]), r[1], r[3])
    ELSE Arr4(r[1], r[2], InnerHigh(r[1], r[3]), r[3])

\* lines 488-495: the bracket after the shrink toward `side`
ShrinkRadii(r, side) ==
    IF side = 0
    THEN Arr4(r[0], InnerLow(r[0], r[2]), r[1], r[2])
    ELSE Arr4(r[1], r[2], InnerHigh(r[1], r[3]), r[3])

\* the iteration with line 497 left out
RadiusIterateLeavesSum(self, g, img, thr) ==
    LET r == ShrinkRadii(g.r, g.min_index)
        next(array_sum) ==
            [g EXCEPT !.r = r, !.array_sum = array_sum,
                      !.min_index = ArgMin2(array_sum), !.iters = Count(g.iters),
                      !.searched = <<r[g.min_index + 1]>>]
        scored(s) ==
            [self |-> s,
             frame |-> next([k \in 0..1 |->
                         IF k = g.min_index
                         THEN RadiusScore(Val(s._array_sum_circle), thr, r[g.min_index + 1],
                                          Resolution(g.tol))
                         ELSE g.array_sum[k]])]
    IN  scored(setFiberCenterCircleMethod(self, img, r[g.min_index + 1], g.tol, g.test_range))

\* lines 488-503: one iteration of the loop
RadiusIterate(self, g, img, thr) ==
    LET r == ShrinkRadii(g.r, g.min_index)
        next(array_sum) ==
            [g EXCEPT !.r = r, !.array_sum = array_sum,
                      !.min_index = ArgMin2(array_sum), !.iters = Count(g.iters),
                      !.searched = <<r[g.min_index + 1]>>]
        \* s is the object after the circle search at the new radius
        scored(s) ==
            [self |-> s,
             frame |-> next([k \in 0..1 |->
                         IF k = g.min_index
                         THEN RadiusScore(Val(s._array_sum_circle), thr, r[g.min_index + 1],
                                          Resolution(g.tol))
                         ELSE g.array_sum[g.min_index]])]
    IN  scored(setFiberCenterCircleMethod(self, img, r[g.min_index + 1], g.tol, g.test_range))

\* lines 505-508: the object after the call
RadiusStore(self, g) ==
    [self EXCEPT !._fiber_diameter_radius = Some(2 * g.r[g.min_index + 1]),
                 !._center_y_radius = self._center_y_circle,
                 !._center_x_radius = self._center_x_circle,
                 !._array_sum_radius = Some(Min2(g.array_sum[0], g.array_sum[1]))]

\* the loop run to its end
RECURSIVE RadiusLoop(_, _, _)
RadiusLoop(sg, img, thr) ==
    IF RadiusContinue(sg.frame)
    THEN RadiusLoop(RadiusIterate(sg.self, sg.frame, img, thr), img, thr)
    ELSE sg

\* setFiberCenterRadiusMethod(tol, test_range): the object after the call
setFiberCenterRadiusMethod(self, img, thr, tol, test_range, approx_radius) ==
    LET store(sg) == RadiusStore(sg.self, sg.frame)
    IN  store(RadiusLoop(RadiusStart(self, img, thr, tol, test_range, approx_radius), img, thr))

\* lines 50-67: the fields __init__ adds after the edge method has run
NewOtherFields ==
    [_centroid_y |-> None, _centroid_x |-> None,
     _fiber_diameter_circle |-> None, _center_y_circle |-> None,
     _center_x_circle |-> None, _array_sum_circle |-> None,
     _fiber_diameter_radius |-> None, _center_y_radius |-> None,
     _center_x_radius |-> None, _array_sum_radius |-> None,
     _fiber_diameter_gaussian |-> None, _center_y_gaussian |-> None,
     _center_x_gaussian |-> None, _gaussian_fit |-> None]

\* the object when __init__ returns
NewImageAnalysis(img, thr) ==
    setFiberCenterEdgeMethod(NewEdgeFields, img, thr) @@ NewOtherFields

(***************************************************************************)
(* SpecEdge: the edge method applied to every small image                  *)
(***************************************************************************)
InitEdge ==
    /\ \E h \in 1..MaxEdgeH, w \in 1..MaxEdgeW : image \in Images(h, w)
    /\ threshold \in 0..1
    /\ ia = NewEdgeFields
    /\ args = None
    /\ frame = None
    /\ result = None
    /\ pc = "new"

\* __init__ line 45: self.setFiberCenterEdgeMethod()
RunEdgeMethod ==
    /\ pc = "new"
    /\ ia' = setFiberCenterEdgeMethod(ia, image, threshold)
    /\ pc' = "edge_done"
    /\ UNCHANGED <<image, threshold, args, frame, result>>

NextEdge == RunEdgeMethod

SpecEdge == InitEdge /\ [][NextEdge]_vars

\* the columns (rows) whose maximum filtered intensity exceeds the threshold
BrightColumns == {x \in 0..(ImageWidth(image)-1) : ColumnMax(image, x) > threshold}
BrightRows == {y \in 0..(ImageHeight(image)-1) : RowMax(image, y) > threshold}
SetMin(S) == CHOOSE m \in S : \A n \in S : m <= n

\* C7: once the edge method has run on an image with a column and a row above
\* threshold, center_x is the midpoint of the first and last bright column,
\* center_y the midpoint of the first and last bright row, and the diameter
\* is the larger of the two spans.
C7_EdgeMidpoint ==
    (pc = "edge_done" /\ BrightColumns # {} /\ BrightRows # {}) =>
        /\ ia._center_x_edge = Some(HalfSum(SetMin(BrightColumns), SetMax(BrightColumns)))
        /\ ia._center_y_edge = Some(HalfSum(SetMin(BrightRows), SetMax(BrightRows)))
        /\ ia._fiber_diameter_edge =
               Some(Scale * Max2(SetMax(BrightColumns) - SetMin(BrightColumns),
                                 SetMax(BrightRows) - SetMin(BrightRows)))

\* C8: when no pixel of the filtered image exceeds the threshold, the edge
\* method ends in an error and stores neither a center nor a diameter.
C8_NoEdgeIsAnError ==
    (pc # "new" /\ BrightColumns = {} /\ BrightRows = {}) =>
        /\ pc = "edge_error"
        /\ IsNone(ia._center_x_edge)
        /\ IsNone(ia._center_y_edge)
        /\ IsNone(ia._fiber_diameter_edge)

\* C24: after setFiberEdges on an image with at least one pixel above
\* threshold, 0 <= left <= right < width, 0 <= top <= bottom < height and
\* the edge diameter is >= 0, also when exactly one column or one row
\* exceeds the threshold.
C24_EdgesOrdered ==
    (pc = "edge_done" /\ BrightColumns # {}) =>
        /\ 0 <= Val(ia._left_edge) /\ Val(ia._left_edge) <= Val(ia._right_edge)
        /\ Val(ia._right_edge) < ImageWidth(image)
        /\ 0 <= Val(ia._top_edge) /\ Val(ia._top_edge) <= Val(ia._bottom_edge)
        /\ Val(ia._bottom_edge) < ImageHeight(image)
        /\ Val(ia._fiber_diameter_edge) >= 0

\* What holds of the edges: with two or more bright columns and two or more
\* bright rows they are ordered and inside the image; with one bright column
\* (row) the right (bottom) edge is -1.
EdgesOrderedFromTwoOn ==
    pc = "edge_done" =>
        /\ (Cardinality(BrightColumns) >= 2 /\ Cardinality(BrightRows) >= 2) =>
              /\ 0 <= Val(ia._left_edge) /\ Val(ia._left_edge) < Val(ia._right_edge)
              /\ Val(ia._right_edge) < ImageWidth(image)
              /\ 0 <= Val(ia._top_edge) /\ Val(ia._top_edge) < Val(ia._bottom_edge)
              /\ Val(ia._bottom_edge) < ImageHeight(image)
              /\ Val(ia._fiber_diameter_edge) > 0
        /\ Cardinality(BrightColumns) = 1 => ia._right_edge = Some(-1)
        /\ Cardinality(BrightRows) = 1 => ia._bottom_edge = Some(-1)

(***************************************************************************)
(* SpecSearch: one call of setFiberCenterCircleMethod or of                *)
(* setFiberCenterRadiusMethod on a freshly constructed object, stepped     *)
(* loop iteration by loop iteration                                        *)
(***************************************************************************)
\* a disk of intensity MaxPixel around pixel (cx, cy), of squared radius 2
\* pixels (a block of 3 x 3 pixels), on a zero background
DiskImage(h, w, cx, cy) ==
    [y \in 0..(h-1) |-> [x \in 0..(w-1) |->
        IF (x - cx) * (x - cx) + (y - cy) * (y - cy) <= 2 THEN MaxPixel ELSE 0]]

SearchSizes == (MaxSearchSize - 1)..MaxSearchSize
SearchImages ==
    {DiskImage(h, w, c[1], c[2]) :
        h \in SearchSizes, w \in SearchSizes, c \in (2..3) \X (2..3)}
\* tol: 0.5, 1 and 2 pixels
Tolerances == {Scale \div 2, Scale, 2 * Scale}
\* test_range: None, 2 or 4 pixels
TestRanges == {None, Some(2 * Scale), Some(4 * Scale)}
\* radius: 0, 0.5, ... pixels, up to half the largest image side
Radii == {HalfScale * k : k \in 0..MaxSearchSize}
\* the radii of at most min(height, width) / 2, the largest radius that the
\* radius search tries on the image (line 475)
RadiiWithin(img) ==
    {rad \in Radii : rad <= HalfScale * Min2(ImageHeight(img), ImageWidth(img))}

InitSearch ==
    /\ image \in SearchImages
    /\ threshold = 1
    /\ ia = NewImageAnalysis(image, threshold)
    /\ \E t \in Tolerances, tr \in TestRanges :
          \/ \E rad \in RadiiWithin(image) :
                /\ args = [radius |-> rad, tol |-> t, test_range |-> tr]
                /\ pc = "circle_call"
          \/ /\ args = [tol |-> t, test_range |-> tr]
             /\ pc = "radius_call"
    /\ frame = None
    /\ result = None

\* setFiberCenterCircleMethod, lines 525-572
CircleCall ==
    /\ pc = "circle_call"
    /\ frame' = CircleStart(ia, image, args.radius, args.tol, args.test_range)
    /\ pc' = "circle_loop"
    /\ UNCHANGED <<image, threshold, ia, args, result>>

\* setFiberCenterCircleMethod, lines 574-606: one iteration
CircleStep ==
    /\ pc = "circle_loop"
    /\ CircleContinue(frame)
    /\ frame' = CircleIterate(frame, image)
    /\ UNCHANGED <<image, threshold, ia, args, result, pc>>

\* setFiberCenterCircleMethod, lines 608-611
CircleReturn ==
    /\ pc = "circle_loop"
    /\ ~CircleContinue(frame)
    /\ ia' = CircleStore(ia, frame)
    /\ pc' = "circle_done"
    /\ UNCHANGED <<image, threshold, args, frame, result>>

\* setFiberCenterRadiusMethod, lines 462-485
RadiusCall ==
    /\ pc = "radius_call"
    /\ LET sg == RadiusStart(ia, image, threshold, args.tol, args.test_range,
                             Half(Val(ia._fiber_diameter_edge)))
       IN  ia' = sg.self /\ frame' = sg.frame
    /\ pc' = "radius_loop"
    /\ UNCHANGED <<image, threshold, args, result>>

\* setFiberCenterRadiusMethod, lines 487-503: one iteration
RadiusStep ==
    /\ pc = "radius_loop"
    /\ RadiusContinue(frame)
    /\ LET sg == RadiusIterate(ia, frame, image, threshold)
       IN  ia' = sg.self /\ frame' = sg.frame
    /\ UNCHANGED <<image, threshold, args, result, pc>>

\* setFiberCenterRadiusMethod, lines 505-508
RadiusReturn ==
    /\ pc = "radius_loop"
    /\ ~RadiusContinue(frame)
    /\ ia' = RadiusStore(ia, frame)
    /\ pc' = "radius_done"
    /\ UNCHANGED <<image, threshold, args, frame, result>>

NextSearch ==
    \/ CircleCall
    \/ CircleStep
    \/ CircleReturn
    \/ RadiusCall
    \/ RadiusStep
    \/ RadiusReturn

SpecSearch == InitSearch /\ [][NextSearch]_vars

\* C5: when the fixed-radius circle search has stopped, the bracket is no
\* wider than tol in x and no wider than tol in y.
C5_BracketWithinTolInBothAxes ==
    pc = "circle_done" =>
        /\ Abs(frame.x[3] - frame.x[0]) <= frame.tol
        /\ Abs(frame.y[3] - frame.y[0]) <= frame.tol

\* the width of a bracket
Width(v) == Abs(v[3] - v[0])
\* w1 is w0 times phi, to within the rounding of two fixed-point operations
ShrunkByPhi(w0, w1) ==
    /\ w1 < w0
    /\ Abs(PhiDen * w1 - PhiNum * w0) <= 2 * PhiDen

\* C6: the loops of the circle search and of the radius search terminate:
\* every iteration runs with a width above tol and multiplies the width of
\* the bracket (of both brackets, in the circle search) by phi, so that the
\* width, a non-negative fixed-point number, falls to tol after finitely
\* many iterations, and then the loop is left.
C6_SearchTerminates ==
    [][ /\ (pc = "circle_loop" /\ pc' = "circle_loop") =>
              /\ Width(frame.x) > frame.tol /\ Width(frame.y) > frame.tol
              /\ ShrunkByPhi(Width(frame.x), Width(frame'.x))
              /\ ShrunkByPhi(Width(frame.y), Width(frame'.y))
        /\ (pc = "radius_loop" /\ pc' = "radius_loop") =>
              /\ Width(frame.r) > frame.tol
              /\ ShrunkByPhi(Width(frame.r), Width(frame'.r))
        /\ (pc = "circle_loop" /\ (Width(frame.x) <= frame.tol \/ Width(frame.y) <= frame.tol)) =>
              pc' = "circle_done"
        /\ (pc = "radius_loop" /\ Width(frame.r) <= frame.tol) =>
              pc' = "radius_done"
      ]_vars

\* a radius search that iterated its own loop and ended
C6_Witness ==
    /\ pc = "radius_done"
    /\ frame.iters >= 2
    /\ ~IsNone(ia._center_x_radius)

\* C17: across consecutive iterations of the circle search and of the
\* radius search, the smallest objective value among the interior probe
\* points never increases.
C17_ObjectiveNeverIncreases ==
    [][ /\ (pc = "circle_loop" /\ pc' = "circle_loop") =>
              AMin2x2(frame'.array_sum) <= AMin2x2(frame.array_sum)
        /\ (pc = "radius_loop" /\ pc' = "radius_loop") =>
              Min2(frame'.array_sum[0], frame'.array_sum[1])
                  <= Min2(frame.array_sum[0], frame.array_sum[1])
      ]_vars

\* a circle search that is at its loop head after two iterations, with
\* interior corners of unequal objective
C17_Witness ==
    /\ pc = "circle_loop"
    /\ frame.iters >= 2
    /\ \E j, i \in 0..1 : frame.array_sum[j][i] > AMin2x2(frame.array_sum)

\* the objective of the circle search at the corner (x, y)
CornerObjective(f, x, y) == RemovedCircleSum(image, x, y, f.radius, f.res)

\* array_sum[j, i] is the objective at (x[i+1], y[j+1]), for all four slots
CornersInPlace(f) ==
    \A j, i \in 0..1 : f.array_sum[j][i] = CornerObjective(f, f.x[i+1], f.y[j+1])

\* the slot <<j, i>> that holds the retained value after a shrink from f
Retained(f) == <<1 - f.min_index[1], 1 - f.min_index[2]>>

\* C18: in the circle search, after every bracket shrink the one retained
\* objective value sits in the slot of the interior corner that has the
\* coordinates it was evaluated at, and only the other three corners are
\* evaluated; at every loop head array_sum[j, i] is the objective at
\* (x[i+1], y[j+1]).
C18_CornersReused ==
    [][ /\ pc' = "circle_loop" => CornersInPlace(frame')
        /\ (pc = "circle_loop" /\ pc' = "circle_loop") =>
              /\ frame'.x[Retained(frame)[2] + 1] = frame.x[frame.min_index[2] + 1]
              /\ frame'.y[Retained(frame)[1] + 1] = frame.y[frame.min_index[1] + 1]
              /\ frame'.array_sum[Retained(frame)[1]][Retained(frame)[2]]
                    = frame.array_sum[frame.min_index[1]][frame.min_index[2]]
              /\ frame'.evaluated = ((0..1) \X (0..1)) \ {Retained(frame)}
      ]_vars

\* a circle search at its loop head after an iteration that moved the
\* retained value to another slot
C18_Witness ==
    /\ pc = "circle_loop"
    /\ frame.iters >= 1
    /\ Cardinality(frame.evaluated) = 3
    /\ CornersInPlace(frame)

\* the objective of the radius search at radius r: the score of the circle
\* search run for r
RadiusObjective(g, r) ==
    RadiusScore(Val(setFiberCenterCircleMethod(ia, image, r, g.tol, g.test_range)._array_sum_circle),
                threshold, r, Resolution(g.tol))

\* C19: in the radius search, each iteration runs the circle search once,
\* at the one new interior radius; the other interior radius is the
\* interior point kept from the previous bracket and its objective is
\* carried over; at every loop head array_sum[k] is the objective of
\* r[k+1].
C19_RadiusReused ==
    [][ /\ pc' = "radius_loop" =>
              \A k \in 0..1 : frame'.array_sum[k] = RadiusObjective(frame', frame'.r[k+1])
        /\ (pc = "radius_loop" /\ pc' = "radius_loop") =>
              /\ frame'.searched = <<frame'.r[frame.min_index + 1]>>
              /\ ia'._fiber_diameter_circle = Some(2 * frame'.r[frame.min_index + 1])
              /\ frame'.r[(1 - frame.min_index) + 1] = frame.r[frame.min_index + 1]
              /\ frame'.array_sum[1 - frame.min_index] = frame.array_sum[frame.min_index]
      ]_vars

\* a radius search at its loop head after two iterations
C19_Witness ==
    /\ pc = "radius_loop"
    /\ frame.iters >= 2
    /\ Len(frame.searched) = 1

\* C20: the radius method scores a candidate radius r by the minimal
\* outside-circle sum that the circle search found for r plus
\* threshold * pi * r^2, and the diameter it stores is twice the interior
\* radius with the smaller score in the final bracket.
C20_ScoreAndStoredDiameter ==
    [][ /\ pc' = "radius_loop" =>
              /\ frame'.searched[Len(frame'.searched)] * 2 = Val(ia'._fiber_diameter_circle)
              /\ \E k \in 0..1 :
                    /\ frame'.r[k+1] = frame'.searched[Len(frame'.searched)]
                    /\ frame'.array_sum[k] * PiDen
                          = Val(ia'._array_sum_circle) * Scale * Scale * PiDen * PiDen
                            + threshold * PiNum * PiDen * frame'.r[k+1] * frame'.r[k+1]
                              * MaskRes(Resolution(frame'.tol)) * MaskRes(Resolution(frame'.tol))
        /\ pc' = "radius_done" =>
              \E k \in 0..1 :
                  /\ \A n \in 0..1 : frame.array_sum[k] <= frame.array_sum[n]
                  /\ ia'._fiber_diameter_radius = Some(2 * frame.r[k+1])
      ]_vars

\* a radius search that has ended with interior radii of unequal score
C20_Witness ==
    /\ pc = "radius_done"
    /\ frame.array_sum[0] # frame.array_sum[1]
    /\ ~IsNone(ia._fiber_diameter_radius)

\* the center that the circle search finds for radius r with the tol and
\* test_range of the radius search g, as <<x, y>>
CenterFoundFor(g, r) ==
    LET found(s) == <<s._center_x_circle, s._center_y_circle>>
    IN  found(setFiberCenterCircleMethod(ia, image, r, g.tol, g.test_range))

\* C21: when the radius search has ended, the center it stored is the center
\* that the circle search finds for the reported radius,
\* fiber_diameter_radius / 2.
C21_CenterOfReportedRadius ==
    pc = "radius_done" =>
        <<ia._center_x_radius, ia._center_y_radius>>
            = CenterFoundFor(frame, frame.r[frame.min_index + 1])

\* the center stored is the center left by the circle search that ran last
CenterOfLastSearch ==
    pc = "radius_done" =>
        /\ Val(ia._fiber_diameter_radius) = 2 * frame.r[frame.min_index + 1]
        /\ <<ia._center_x_radius, ia._center_y_radius>>
              = CenterFoundFor(frame, frame.searched[Len(frame.searched)])

\* v[0] <= v[1] <= v[2] <= v[3]
Ordered(v) == v[0] <= v[1] /\ v[1] <= v[2] /\ v[2] <= v[3]

\* a circle of the frame's radius around an interior point of the bracket v
\* lies within 0..size on that axis
CircleInside(f, v, size) ==
    \A k \in 1..2 : f.radius <= v[k] /\ v[k] <= size - f.radius

\* the circle search is under way, or has ended, for a radius of at most
\* min(height, width) / 2
SearchingWithin ==
    /\ pc \in {"circle_loop", "circle_done"}
    /\ 2 * frame.radius <= Scale * Min2(ImageHeight(image), ImageWidth(image))

\* C25: throughout the circle search, for every radius from 0 to
\* min(height, width) / 2 and for test_range given or None, the brackets
\* stay ordered, x[0] <= x[1] <= x[2] <= x[3] and the same for y, and every
\* candidate center (x[i+1], y[j+1]) keeps the circle inside the image.
C25_BracketOrderedAndInside ==
    SearchingWithin =>
        /\ Ordered(frame.x) /\ Ordered(frame.y)
        /\ CircleInside(frame, frame.x, Scale * ImageWidth(image))
        /\ CircleInside(frame, frame.y, Scale * ImageHeight(image))

\* What holds of the brackets: without a test_range they are ordered and
\* every candidate center keeps the circle inside the image.
BracketOrderedWithoutTestRange ==
    (SearchingWithin /\ IsNone(args.test_range)) =>
        /\ Ordered(frame.x) /\ Ordered(frame.y)
        /\ CircleInside(frame, frame.x, Scale * ImageWidth(image))
        /\ CircleInside(frame, frame.y, Scale * ImageHeight(image))

\* C28: for each tolerance of 0.5, 1 and 2 pixels, the resolution
\* res = int(1 / tol) that the circle search passes to the circle mask is an
\* integer of at least 1.
C28_ResolutionAtLeastOne ==
    pc \in {"circle_loop", "circle_done"} =>
        /\ frame.tol \in Tolerances
        /\ frame.res \in Nat
        /\ frame.res >= 1

\* What holds of the resolution: it is 2 for a tolerance of 0.5 pixels, 1 for
\* 1 pixel and 0 for 2 pixels.
ResolutionTruncated ==
    pc \in {"circle_loop", "circle_done"} =>
        frame.res = (CASE frame.tol = Scale \div 2 -> 2
                       [] frame.tol = Scale -> 1
                       [] frame.tol = 2 * Scale -> 0)

(***************************************************************************)
(* Python strings that the code tests with `in`                            *)
(***************************************************************************)
sEdge == <<"e", "d", "g", "e">>
sCircle == <<"c", "i", "r", "c", "l", "e">>
sRadius == <<"r", "a", "d", "i", "u", "s">>
sGaussian == <<"g", "a", "u", "s", "s", "i", "a", "n">>
sTophat == <<"t", "o", "p", "h", "a", "t">>
sFft == <<"f", "f", "t">>
sFourier == <<"f", "o", "u", "r", "i", "e", "r">>
sPolynomial == <<"p", "o", "l", "y", "n", "o", "m", "i", "a", "l">>
sGradient == <<"g", "r", "a", "d", "i", "e", "n", "t">>
sContrast == <<"c", "o", "n", "t", "r", "a", "s", "t">>
sGini == <<"g", "i", "n", "i">>
sEntropy == <<"e", "n", "t", "r", "o", "p", "y">>
sArray == <<"a", "r", "r", "a", "y">>
sParameter == <<"p", "a", "r", "a", "m", "e", "t", "e", "r">>

\* Python's `sub in s` for two strings
Contains(sub, s) ==
    \E i \in 1..(Len(s) - Len(sub) + 1) : SubSeq(s, i, i + Len(sub) - 1) = sub

(***************************************************************************)
(* Image properties: ImageAnalysis.setImageProperties                      *)
(* output_dict is a function from the keys the image header holds to       *)
(* their values; pixel sizes are whole microns.                            *)
(***************************************************************************)
\* lines 105-109: the magnification that belongs to a camera
CameraMagnification(camera) ==
    IF camera = Some("ff") THEN Some(1)
    ELSE IF camera = Some("nf") \/ camera = Some("in") THEN Some(10)
    ELSE None

\* lines 89-114: the object after the call, and the error raised
setImageProperties(self, output_dict) ==
    LET pixel_size == IF "pixel_size" \in DOMAIN output_dict
                      THEN output_dict.pixel_size ELSE self.pixel_size
        camera == IF "camera" \in DOMAIN output_dict
                  THEN output_dict.camera ELSE self.camera
        s == [pixel_size |-> pixel_size, camera |-> camera,
              magnification |-> CameraMagnification(camera)]
    IN  IF IsNone(s.pixel_size)
        THEN [self |-> s, err |-> Some("RuntimeError: Pixel Size needs to be set externally")]
        ELSE IF IsNone(s.magnification)
        THEN [self |-> s, err |-> Some("RuntimeError: Magnification needs to be set externally")]
        ELSE [self |-> s, err |-> None]

\* lines 19-67: ImageAnalysis(image_input, pixel_size=..., camera=...,
\* threshold=...): the object, or the error that ended the construction
ImageAnalysisInit(img, thr, pixel_size, camera, output_dict) ==
    LET p == setImageProperties([pixel_size |-> pixel_size, camera |-> camera],
                                output_dict)
    IN  IF IsNone(p.err)
        THEN [self |-> p.self @@ NewImageAnalysis(img, thr), err |-> None]
        ELSE p

(***************************************************************************)
(* The getters of ImageAnalysis.  A getter takes the state st of the call: *)
(* the object (self) and the estimators the call has run so far (ran).     *)
(* It yields an outcome: the state, the method string the outermost        *)
(* getFiberCenter or getFiberDiameter worked with, and the value returned  *)
(* (ret) or the error raised (err).  The image and the threshold are the   *)
(* object's _filtered_image and threshold.                                 *)
(***************************************************************************)
Start(self) == [self |-> self, ran |-> {}]
Return(st, v) ==
    [self |-> st.self, ran |-> st.ran, method |-> None, ret |-> Some(v), err |-> None]
Raise(st, error) ==
    [self |-> st.self, ran |-> st.ran, method |-> None, ret |-> None, err |-> Some(error)]
Raised(r) == ~IsNone(r.err)
After(r) == [self |-> r.self, ran |-> r.ran]
Ran(st, estimators, self) == [self |-> self, ran |-> st.ran \cup estimators]

\* the default of the tol argument: tol=1
DefaultTol == Scale

\* value * self.pixel_size / self.magnification (lines 192 and 242)
Microns(self, value) ==
    RoundDiv(value * Val(self.pixel_size), Val(self.magnification))

\* getFiberCenter, lines 214-222, with the order of gaussian and circle swapped
SelectCenterMethodCircleFirst(self) ==
    IF ~IsNone(self._center_x_radius) THEN sRadius
    ELSE IF ~IsNone(self._center_x_circle) THEN sCircle
    ELSE IF ~IsNone(self._center_x_gaussian) THEN sGaussian
    ELSE sEdge

\* getFiberCenter, lines 214-222: the method that stands for method=None
SelectCenterMethod(self) ==
    IF ~IsNone(self._center_x_radius) THEN sRadius
    ELSE IF ~IsNone(self._center_x_gaussian) THEN sGaussian
    ELSE IF ~IsNone(self._center_x_circle) THEN sCircle
    ELSE sEdge

\* getFiberDiameter, lines 170-176, with the order of radius and gaussian swapped
SelectDiameterMethodGaussianFirst(self) ==
    IF ~IsNone(self._fiber_diameter_gaussian) THEN sGaussian
    ELSE IF ~IsNone(self._fiber_diameter_radius) THEN sRadius
    ELSE sEdge

\* getFiberDiameter, lines 170-176: the method that stands for method=None
SelectDiameterMethod(self) ==
    IF ~IsNone(self._fiber_diameter_radius) THEN sRadius
    ELSE IF ~IsNone(self._fiber_diameter_gaussian) THEN sGaussian
    ELSE sEdge

RECURSIVE getFiberCenter(_, _, _, _, _, _)
RECURSIVE getFiberDiameter(_, _, _, _, _, _)

\* line 156: the outcome d of getFiberDiameter, divided by 2.0
HalfDiameter(d) ==
    IF Raised(d) THEN d ELSE [d EXCEPT !.ret = Some(Half(Val(d.ret)))]

\* getFiberRadius(method, show_image, tol, test_range, units), line 156
getFiberRadius(st, method, tol, test_range, units, fit) ==
    HalfDiameter(getFiberDiameter(st, method, tol, test_range, units, fit))

\* self.getFiberRadius() with every argument at its default
DefaultFiberRadius(st, fit) ==
    getFiberRadius(st, None, DefaultTol, None, "pixels", fit)

\* line 266, after the estimators have run and left the object `self`
ReturnRadiusCenter(st, estimators, self) ==
    Return(Ran(st, estimators, self),
           <<Val(self._center_y_radius), Val(self._center_x_radius)>>)

\* line 259: self.setFiberCenterRadiusMethod(tol, test_range), where approx
\* is the outcome of the self.getFiberRadius() of line 466
RunRadiusMethod(approx, tol, test_range) ==
    ReturnRadiusCenter(After(approx), {"radius", "circle"},
        setFiberCenterRadiusMethod(approx.self, image, threshold, tol, test_range,
                                   Val(approx.ret)))

\* getFiberCenterRadiusMethod(tol, test_range), lines 258-266
getFiberCenterRadiusMethod(st, tol, test_range, fit) ==
    IF IsNone(st.self._center_x_radius)
    THEN RunRadiusMethod(IF IsNone(test_range) THEN Return(st, 0)
                         ELSE DefaultFiberRadius(st, fit),
                         tol, test_range)
    ELSE ReturnRadiusCenter(st, {}, st.self)

\* line 293, after the circle search has run and left the object `self`
ReturnCircleCenter(st, self) ==
    Return(Ran(st, {"circle"}, self),
           <<Val(self._center_y_circle), Val(self._center_x_circle)>>)

\* lines 285-293, where rad is the outcome of lines 280-281
RunCircleMethod(rad, tol, test_range) ==
    ReturnCircleCenter(After(rad),
        setFiberCenterCircleMethod(rad.self, image, Val(rad.ret), tol, test_range))

\* getFiberCenterCircleMethod(radius, tol, test_range), lines 280-293
getFiberCenterCircleMethod(st, radius, tol, test_range, fit) ==
    RunCircleMethod(IF IsNone(radius) THEN DefaultFiberRadius(st, fit)
                    ELSE Return(st, Val(radius)),
                    tol, test_range)

\* line 315, after the estimators have run and left the object `self`
ReturnEdgeCenter(st, estimators, self) ==
    Return(Ran(st, estimators, self),
           <<Val(self._center_y_edge), Val(self._center_x_edge)>>)

\* getFiberCenterEdgeMethod(), lines 307-315
getFiberCenterEdgeMethod(st) ==
    IF IsNone(st.self._center_y_edge)
    THEN ReturnEdgeCenter(st, {"edge"}, setFiberCenterEdgeMethod(st.self, image, threshold))
    ELSE ReturnEdgeCenter(st, {}, st.self)

\* lines 436-442: the fit is made and stored; rad is the outcome of the
\* self.getFiberRadius() of line 433, fit is opt_parameters, the result of
\* scipy's curve_fit
StoreGaussianFit(rad, fit) ==
    Ran(After(rad), {"gaussian"},
        [rad.self EXCEPT !._gaussian_fit = Some(fit),
                         !._center_x_gaussian = Some(fit[0]),
                         !._center_y_gaussian = Some(fit[1]),
                         !._fiber_diameter_gaussian = Some(fit[2] * 2)])

\* setFiberCenterGaussianMethod(), lines 432-442: the state after the call
setFiberCenterGaussianMethod(st, fit) ==
    StoreGaussianFit(
        DefaultFiberRadius(After(getFiberCenter(st, None, DefaultTol, None, "pixels", fit)),
                           fit),
        fit)

\* line 337
ReturnGaussianCenter(st) ==
    Return(st, <<Val(st.self._center_y_gaussian), Val(st.self._center_x_gaussian)>>)

\* getFiberCenterGaussianMethod(), lines 329-337
getFiberCenterGaussianMethod(st, fit) ==
    ReturnGaussianCenter(IF IsNone(st.self._center_x_gaussian)
                         THEN setFiberCenterGaussianMethod(st, fit) ELSE st)

\* getFiberCenter, lines 239-244: the outcome `center` of the method's
\* getter, in the units asked for
CenterInUnits(center, m, units) ==
    LET out ==
            IF Raised(center) \/ units = "pixels" THEN center
            ELSE IF units = "microns"
            THEN Return(After(center), <<Microns(center.self, Val(center.ret)[1]),
                                         Microns(center.self, Val(center.ret)[2])>>)
            ELSE Raise(After(center), "RuntimeError: Incorrect string for units")
    IN  [out EXCEPT !.method = Some(m)]

\* getFiberCenter, lines 224-244, for the method string m
CenterByMethod(st, m, tol, test_range, units, fit) ==
    CenterInUnits(
        IF Contains(sRadius, m) THEN getFiberCenterRadiusMethod(st, tol, test_range, fit)
        ELSE IF Contains(sGaussian, m) THEN getFiberCenterGaussianMethod(st, fit)
        ELSE IF Contains(sCircle, m)
             THEN getFiberCenterCircleMethod(st, None, tol, test_range, fit)
        ELSE IF Contains(sEdge, m) THEN getFiberCenterEdgeMethod(st)
        ELSE Raise(st, "RuntimeError: Incorrect string for method type"),
        m, units)

\* getFiberCenter(method, show_image, tol, test_range, units), lines 214-244
getFiberCenter(st, method, tol, test_range, units, fit) ==
    CenterByMethod(st, IF IsNone(method) THEN SelectCenterMethod(st.self) ELSE Val(method),
                   tol, test_range, units, fit)

\* getFiberDiameter, lines 180-194, where center is the outcome of the
\* self.getFiberCenter of line 178
DiameterInUnits(center, m, units) ==
    LET diameter ==
            IF Contains(sRadius, m) THEN center.self._fiber_diameter_radius
            ELSE IF Contains(sGaussian, m) THEN center.self._fiber_diameter_gaussian
            ELSE IF Contains(sEdge, m) THEN center.self._fiber_diameter_edge
            ELSE None
        known == Contains(sRadius, m) \/ Contains(sGaussian, m) \/ Contains(sEdge, m)
        out ==
            IF Raised(center) THEN center
            ELSE IF ~known
            THEN Raise(After(center), "RuntimeError: Incorrect string for method type")
            ELSE IF units = "pixels" THEN Return(After(center), Val(diameter))
            ELSE IF units = "microns"
            THEN Return(After(center), Microns(center.self, Val(diameter)))
            ELSE Raise(After(center), "RuntimeError: Incorrect string for units")
    IN  [out EXCEPT !.method = Some(m)]

\* getFiberDiameter, lines 178-194, for the method string m
DiameterByMethod(st, m, tol, test_range, units, fit) ==
    DiameterInUnits(getFiberCenter(st, Some(m), tol, test_range, units, fit), m, units)

\* getFiberDiameter(method, show_image, tol, test_range, units), lines 170-194
getFiberDiameter(st, method, tol, test_range, units, fit) ==
    DiameterByMethod(st,
                     IF IsNone(method) THEN SelectDiameterMethod(st.self) ELSE Val(method),
                     tol, test_range, units, fit)

(***************************************************************************)
(* Modal noise: the dispatchers ModalNoise.getModalNoise (ModalNoise.py)   *)
(* and modalNoise (FiberProperties/ModalNoise.py), and what the metric     *)
(* functions do with the image object and with the output string.  The     *)
(* numbers a metric computes are not part of this section: a metric        *)
(* returns <<kind, metric>> with kind "array" or "parameter", or None.     *)
(***************************************************************************)
\* len(method) < 3, the first test of both dispatchers
TooShort(method) == Len(method) < 3

\* ModalNoise.py lines 68-87: the metric that getModalNoise calls, if any
getModalNoiseDispatch(method) ==
    IF TooShort(method) THEN None
    ELSE IF Contains(method, sTophat) THEN Some("tophat")
    ELSE IF Contains(method, sFft) \/ Contains(method, sFourier) THEN Some("fft")
    ELSE IF Contains(method, sPolynomial) THEN Some("polynomial")
    ELSE IF Contains(method, sGaussian) THEN Some("gaussian")
    ELSE IF Contains(method, sGradient) THEN Some("gradient")
    ELSE IF Contains(method, sContrast) THEN Some("contrast")
    ELSE IF Contains(method, sGini) THEN Some("gini")
    ELSE IF Contains(method, sEntropy) THEN Some("entropy")
    ELSE None

\* FiberProperties/ModalNoise.py lines 29-48: the metric that modalNoise
\* calls, if any
modalNoiseDispatch(method) ==
    IF TooShort(method) THEN None
    ELSE IF Contains(method, sTophat) THEN Some("tophat")
    ELSE IF Contains(method, sFft) \/ Contains(method, sFourier) THEN Some("fft")
    ELSE IF Contains(method, sPolynomial) THEN Some("polynomial")
    ELSE IF Contains(method, sGaussian) THEN Some("gaussian")
    ELSE IF Contains(method, sGradient) THEN Some("gradient")
    ELSE IF Contains(method, sContrast) THEN Some("contrast")
    ELSE IF Contains(method, sGini) THEN Some("gini")
    ELSE IF Contains(method, sEntropy) THEN Some("entropy")
    ELSE None

\* ModalNoise.py line 31: what getImageData returns
ImageData(center, rad) ==
    Return(After(rad), [y0 |-> Val(center.ret)[1], x0 |-> Val(center.ret)[2],
                        radius |-> Val(rad.ret)])

\* ModalNoise.py lines 27-31, where center is the outcome of line 26
ImageDataAround(center, fit) ==
    ImageData(center, DefaultFiberRadius(After(center), fit))

\* ModalNoise.getImageData(image_obj), ModalNoise.py lines 26-31
getImageData(st, fit) ==
    ImageDataAround(getFiberCenter(st, Some(sEdge), DefaultTol, Some(10 * Scale),
                                   "pixels", fit),
                    fit)

\* getImageData as FiberProperties/ModalNoise.py imports it from ImageAnalysis
getImageDataImported(st, fit) == getImageData(st, fit)

\* the chain of tests of the output string that ends a metric function
OutputKind(output) ==
    IF Len(output) < 3 THEN "short"
    ELSE IF Contains(output, sArray) THEN "array"
    ELSE IF Contains(output, sParameter) THEN "parameter"
    ELSE "neither"

\* ModalNoise.py lines 89-412: one of the eight getModalNoise<Metric> methods
\* as getModalNoise calls it (contrast, gini and entropy take no output),
\* after its call of getImageData, whose outcome is data
getModalNoiseMetricOn(data, metric, output) ==
    LET kind == OutputKind(output)
    IN  IF metric \in {"contrast", "gini", "entropy"}
        THEN Return(After(data), <<"parameter", metric>>)
        ELSE IF kind = "short"
        THEN Raise(After(data), "ValueError: Incorrect output string")
        ELSE IF kind = "parameter" /\ metric = "gaussian"
        THEN Raise(After(data), "NameError: global name 'gauss' is not defined")
        ELSE IF kind \in {"array", "parameter"}
        THEN Return(After(data), <<kind, metric>>)
        ELSE IF metric \in {"gradient", "fft"}
        THEN Return(After(data), None)
        ELSE Raise(After(data), "ValueError: Incorrect output string")

\* one of the eight methods, from its call of getImageData on
getModalNoiseMetric(st, metric, output, fit) ==
    getModalNoiseMetricOn(getImageData(st, fit), metric, output)

\* FiberProperties/ModalNoise.py lines 50-409: one of the eight
\* _modalNoise<Metric> functions, called with **kwargs, after its call of
\* getImageData, whose outcome is data
modalNoiseMetricOn(st, data, metric, kwargs) ==
    LET output == IF "output" \in DOMAIN kwargs THEN kwargs.output
                  ELSE IF metric = "gradient" THEN sParameter ELSE sArray
        kind == OutputKind(output)
    IN  IF metric \in {"contrast", "gini", "entropy"}
        THEN IF "output" \in DOMAIN kwargs
             THEN Raise(st, "TypeError: got an unexpected keyword argument 'output'")
             ELSE Return(After(data), <<"parameter", metric>>)
        ELSE IF kind = "short"
        THEN Raise(After(data), "ValueError: Incorrect output string")
        ELSE IF kind \in {"array", "parameter"}
        THEN Return(After(data), <<kind, metric>>)
        ELSE IF metric = "gradient"
        THEN Return(After(data), None)
        ELSE Raise(After(data), "ValueError: Incorrect output string")

\* one of the eight functions, from its call of getImageData on
modalNoiseMetric(st, metric, kwargs, fit) ==
    modalNoiseMetricOn(st, getImageDataImported(st, fit), metric, kwargs)

\* ModalNoise.getModalNoise(image_obj, method, output), ModalNoise.py lines
\* 65-87: the outcome, with the metric that was run
getModalNoise(st, method, output, fit) ==
    LET metric == getModalNoiseDispatch(method)
    IN  IF IsNone(metric)
        THEN [metric |-> None] @@ Raise(st, "ValueError: Incorrect string for method type")
        ELSE [metric |-> metric] @@ getModalNoiseMetric(st, Val(metric), output, fit)

\* modalNoise(image_obj, method, **kwargs), FiberProperties/ModalNoise.py
\* lines 29-48: the outcome, with the metric that was run
modalNoise(st, method, kwargs, fit) ==
    LET metric == modalNoiseDispatch(method)
    IN  IF IsNone(metric)
        THEN [metric |-> None] @@ Raise(st, "ValueError: Incorrect string for method type")
        ELSE [metric |-> metric] @@ modalNoiseMetric(st, Val(metric), kwargs, fit)

(***************************************************************************)
(* Spec: one ImageAnalysis object after its construction, and any sequence *)
(* of calls of its getters and of the modal-noise dispatchers on it        *)
(***************************************************************************)
\* the image of the object: 6 rows, 5 columns, a bright block around (2, 3)
FiberImage == DiskImage(6, 5, 2, 3)

\* opt_parameters of the Gaussian fit: what curve_fit may come back with
GaussFits ==
    {[k \in 0..2 |-> CASE k = 0 -> 2 * Scale + 1 [] k = 1 -> 3 * Scale - 1 [] OTHER -> w] :
        w \in {Scale + 1, 2 * Scale + 1}}

\* method arguments of getFiberCenter and getFiberDiameter: None, the four
\* names, '', 'gauss' and 'edges'
MethodArgs ==
    {None, Some(sEdge), Some(sCircle), Some(sRadius), Some(sGaussian),
     Some(<<>>), Some(SubSeq(sGaussian, 1, 5)), Some(sEdge \o <<"s">>)}

\* tol, test_range and units of a call
CallParams ==
    {[tol |-> DefaultTol, test_range |-> None, units |-> "pixels"],
     [tol |-> Scale \div 2, test_range |-> None, units |-> "pixels"],
     [tol |-> DefaultTol, test_range |-> Some(2 * Scale), units |-> "pixels"],
     [tol |-> DefaultTol, test_range |-> None, units |-> "microns"],
     [tol |-> DefaultTol, test_range |-> None, units |-> "inches"]}

\* radius arguments of getFiberCenterCircleMethod: None, 1 and 1.5 pixels
RadiusArgs == {None, Some(Scale), Some(3 * HalfScale)}

\* method strings of the modal-noise dispatchers: the nine names, 'hat',
\* 'our', 'gauss', 'to', 'tophats', '' and 'noise'
ModalMethods ==
    {sTophat, sFft, sFourier, sPolynomial, sGaussian, sGradient, sContrast,
     sGini, sEntropy, SubSeq(sTophat, 4, 6), SubSeq(sFourier, 2, 4),
     SubSeq(sGaussian, 1, 5), SubSeq(sTophat, 1, 2), sTophat \o <<"s">>, <<>>,
     <<"n", "o", "i", "s", "e">>}

\* output strings: 'array', 'parameter', 'ray', 'ar' and 'both'
Outputs ==
    {sArray, sParameter, SubSeq(sArray, 3, 5), SubSeq(sArray, 1, 2),
     <<"b", "o", "t", "h">>}

\* the (method, output) pairs of the modal-noise calls
ModalRequests ==
    (ModalMethods \X {sArray})
        \cup ({sTophat, sGradient, sFft, sPolynomial, sGaussian, sGini} \X Outputs)

Init ==
    /\ image = FiberImage
    /\ threshold = 1
    /\ ia = ImageAnalysisInit(image, threshold, Some(3), Some("nf"), <<>>).self
    /\ args = None
    /\ frame = None
    /\ result = None
    /\ pc = "idle"

\* what a call leaves behind: the object, and the record of the outcome
Outcome(r, metric) ==
    /\ ia' = r.self
    /\ result' = [method |-> r.method, ret |-> r.ret, err |-> r.err,
                  ran |-> r.ran, metric |-> metric]
    /\ pc' = "returned"
    /\ UNCHANGED <<image, threshold, frame>>

\* the fits curve_fit may come back with in a call for `method` on self: it
\* is reached only by a call that names the gaussian method before a fit is
\* stored (line 329), and no other call reads the fit
CurveFits(self, method) ==
    IF ~IsNone(method) /\ Contains(sGaussian, Val(method)) /\ IsNone(self._center_x_gaussian)
    THEN GaussFits ELSE {None}

\* ia.getFiberCenter(method, tol=tol, test_range=test_range, units=units)
GetFiberCenter ==
    /\ pc = "idle"
    /\ \E method \in MethodArgs, p \in CallParams : \E fit \in CurveFits(ia, method) :
        /\ args' = [op |-> "getFiberCenter", method |-> method, tol |-> p.tol,
                    test_range |-> p.test_range, units |-> p.units]
        /\ \E r \in {getFiberCenter(Start(ia), method, p.tol, p.test_range, p.units, fit)} :
              Outcome(r, None)

\* ia.getFiberDiameter(method, tol=tol, test_range=test_range, units=units)
GetFiberDiameter ==
    /\ pc = "idle"
    /\ \E method \in MethodArgs, p \in CallParams : \E fit \in CurveFits(ia, method) :
        /\ args' = [op |-> "getFiberDiameter", method |-> method, tol |-> p.tol,
                    test_range |-> p.test_range, units |-> p.units]
        /\ \E r \in {getFiberDiameter(Start(ia), method, p.tol, p.test_range, p.units, fit)} :
              Outcome(r, None)

\* ia.getFiberCenterCircleMethod(radius, tol, test_range)
GetFiberCenterCircleMethod ==
    /\ pc = "idle"
    /\ \E radius \in RadiusArgs, p \in {q \in CallParams : q.units = "pixels"},
       fit \in CurveFits(ia, None) :
        /\ args' = [op |-> "getFiberCenterCircleMethod", radius |-> radius,
                    tol |-> p.tol, test_range |-> p.test_range]
        /\ \E r \in {getFiberCenterCircleMethod(Start(ia), radius, p.tol, p.test_range, fit)} :
              Outcome(r, None)

\* ModalNoise(ia).getModalNoise(method=method, output=output)
GetModalNoise ==
    /\ pc = "idle"
    /\ \E q \in ModalRequests, fit \in CurveFits(ia, None) :
        /\ args' = [op |-> "getModalNoise", method |-> q[1], output |-> q[2]]
        /\ \E r \in {getModalNoise(Start(ia), q[1], q[2], fit)} :
              Outcome(r, r.metric)

\* modalNoise(ia, method=method, output=output), or without output
ModalNoiseCall ==
    /\ pc = "idle"
    /\ \E q \in ModalRequests, fit \in CurveFits(ia, None) :
        \E kwargs \in {[output |-> q[2]]} \cup (IF q[2] = sArray THEN {<<>>} ELSE {}) :
            /\ args' = [op |-> "modalNoise", method |-> q[1], kwargs |-> kwargs]
            /\ \E r \in {modalNoise(Start(ia), q[1], kwargs, fit)} :
                  Outcome(r, r.metric)

\* the caller takes the outcome and goes on to its next call
Resume ==
    /\ pc = "returned"
    /\ pc' = "idle"
    /\ args' = None
    /\ result' = None
    /\ UNCHANGED <<image, threshold, ia, frame>>

Next ==
    \/ GetFiberCenter
    \/ GetFiberDiameter
    \/ GetFiberCenterCircleMethod
    \/ GetModalNoise
    \/ ModalNoiseCall
    \/ Resume

Spec == Init /\ [][Next]_vars

(***************************************************************************)
(* Properties of Spec                                                      *)
(***************************************************************************)
\* the geometry fields of the method named m
CenterX(self, m) ==
    CASE m = sRadius -> self._center_x_radius
      [] m = sGaussian -> self._center_x_gaussian
      [] m = sCircle -> self._center_x_circle
      [] m = sEdge -> self._center_x_edge
CenterY(self, m) ==
    CASE m = sRadius -> self._center_y_radius
      [] m = sGaussian -> self._center_y_gaussian
      [] m = sCircle -> self._center_y_circle
      [] m = sEdge -> self._center_y_edge
Diameter(self, m) ==
    CASE m = sRadius -> self._fiber_diameter_radius
      [] m = sGaussian -> self._fiber_diameter_gaussian
      [] m = sCircle -> self._fiber_diameter_circle
      [] m = sEdge -> self._fiber_diameter_edge
Geometry(self, m) == <<CenterY(self, m), CenterX(self, m), Diameter(self, m)>>

\* the first method of `order` for which `stored` holds, the last if none
FirstStored(order, stored(_)) ==
    order[SetMin({i \in 1..Len(order) : stored(order[i])} \cup {Len(order)})]

\* a call of `op` is returning: args', result' and ia' are its record
Returning(op) == pc = "idle" /\ pc' = "returned" /\ args'.op = op

\* C1: getFiberCenter with method=None works with the first of radius,
\* gaussian, circle whose center is stored, and with edge if none is; it
\* returns that method's center and runs no other method's estimator.
C1_CenterPriority ==
    [][ (Returning("getFiberCenter") /\ IsNone(args'.method)) =>
            LET stored(m) == ~IsNone(CenterX(ia, m))
                m == FirstStored(<<sRadius, sGaussian, sCircle, sEdge>>, stored)
            IN  /\ result'.method = Some(m)
                /\ result'.ran \subseteq (IF m = sCircle THEN {"circle"} ELSE {})
                /\ args'.units = "pixels" =>
                      result'.ret = Some(<<Val(CenterY(ia', m)), Val(CenterX(ia', m))>>)
      ]_vars

\* a method=None center query answered by the gaussian center while a
\* different circle center is stored too
C1_Witness ==
    /\ pc = "returned" /\ args.op = "getFiberCenter" /\ IsNone(args.method)
    /\ args.units = "pixels"
    /\ IsNone(ia._center_x_radius)
    /\ ~IsNone(ia._center_x_gaussian) /\ ~IsNone(ia._center_x_circle)
    /\ <<ia._center_y_circle, ia._center_x_circle>>
           # <<ia._center_y_gaussian, ia._center_x_gaussian>>
    /\ result.ret = Some(<<Val(ia._center_y_gaussian), Val(ia._center_x_gaussian)>>)

\* C4: getFiberDiameter with method=None works with radius if a radius
\* diameter is stored, else with gaussian if a gaussian diameter is stored,
\* else with edge; it returns that method's diameter, and never works with
\* circle, whatever circle diameter is stored.
C4_DiameterPriority ==
    [][ (Returning("getFiberDiameter") /\ IsNone(args'.method)) =>
            LET stored(m) == ~IsNone(Diameter(ia, m))
                m == FirstStored(<<sRadius, sGaussian, sEdge>>, stored)
            IN  /\ result'.method = Some(m)
                /\ result'.ran = {}
                /\ args'.units = "pixels" => result'.ret = Some(Val(Diameter(ia', m)))
      ]_vars

\* a method=None diameter query answered by the edge diameter while a
\* different circle diameter is stored
C4_Witness ==
    /\ pc = "returned" /\ args.op = "getFiberDiameter" /\ IsNone(args.method)
    /\ args.units = "pixels"
    /\ IsNone(ia._fiber_diameter_radius) /\ IsNone(ia._fiber_diameter_gaussian)
    /\ ~IsNone(ia._fiber_diameter_circle)
    /\ ia._fiber_diameter_circle # ia._fiber_diameter_edge
    /\ result.ret = Some(Val(ia._fiber_diameter_edge))

\* a center or diameter query that names the method m is returning, and the
\* geometry of m was stored when it was made
RepeatedQuery(m) ==
    /\ pc = "idle" /\ pc' = "returned"
    /\ args'.op \in {"getFiberCenter", "getFiberDiameter"}
    /\ args'.method = Some(m)
    /\ ~IsNone(CenterX(ia, m)) /\ ~IsNone(CenterY(ia, m)) /\ ~IsNone(Diameter(ia, m))

\* the returning query ran no estimator, left the object as it was, and
\* returned the stored value of m (in pixels, if pixels were asked for)
AnsweredFromStore(m) ==
    /\ result'.ran = {}
    /\ ia' = ia
    /\ args'.units = "pixels" =>
          result'.ret = Some(IF args'.op = "getFiberCenter"
                             THEN <<Val(CenterY(ia, m)), Val(CenterX(ia, m))>>
                             ELSE Val(Diameter(ia, m)))

\* C2: a repeated center or diameter query for edge, circle, radius or
\* gaussian, made when that method's geometry is stored, returns the stored
\* value and does not run the method's estimator again.
C2_Memoized ==
    [][ \A m \in {sEdge, sCircle, sRadius, sGaussian} :
            RepeatedQuery(m) => AnsweredFromStore(m) ]_vars

\* What holds of memoization: a repeated query for edge, radius or gaussian
\* is answered from the store; a query for circle runs the circle search
\* again on every call.
MemoizedExceptCircle ==
    [][ /\ \A m \in {sEdge, sRadius, sGaussian} :
              RepeatedQuery(m) => AnsweredFromStore(m)
        /\ RepeatedQuery(sCircle) => "circle" \in result'.ran
      ]_vars

\* C3: once the geometry of edge, circle, radius or gaussian is stored, no
\* later call changes or replaces it.
C3_AppendOnly ==
    [][ \A m \in {sEdge, sCircle, sRadius, sGaussian} :
            (~IsNone(CenterX(ia, m)) /\ ~IsNone(Diameter(ia, m))) =>
                Geometry(ia', m) = Geometry(ia, m) ]_vars

\* What holds of the stored geometries: those of edge, radius and gaussian
\* are never changed once stored; only the circle geometry is.
AppendOnlyExceptCircle ==
    [][ \A m \in {sEdge, sRadius, sGaussian} :
            (~IsNone(CenterX(ia, m)) /\ ~IsNone(Diameter(ia, m))) =>
                Geometry(ia', m) = Geometry(ia, m) ]_vars

\* the names of the modal-noise methods, and the strings the dispatchers
\* compare with
ModalNames ==
    {sTophat, sFft, sPolynomial, sGaussian, sGradient, sContrast, sGini, sEntropy}
ModalPatterns == ModalNames \cup {sFourier}

\* C9: a call succeeds only if its method is one of the names:
\* edge, circle, radius, gaussian (or None) for getFiberCenter and
\* getFiberDiameter, the eight modal-noise names for the dispatchers.
C9_OnlyKnownNames ==
    (pc = "returned" /\ IsNone(result.err)) =>
        /\ args.op \in {"getFiberCenter", "getFiberDiameter"} =>
              args.method \in {None, Some(sEdge), Some(sCircle), Some(sRadius),
                               Some(sGaussian)}
        /\ args.op \in {"getModalNoise", "modalNoise"} => args.method \in ModalNames

\* What the code rejects: a method string that matches no method ends in an
\* error and runs no estimator or metric, where getFiberCenter matches a
\* string that contains edge, circle, radius or gaussian, getFiberDiameter
\* one that contains edge, radius or gaussian (one that contains only circle
\* is rejected after the circle search has run), and the dispatchers a
\* string of at least 3 characters contained in one of the eight names or in
\* fourier.
UnmatchedRejected ==
    pc = "returned" =>
        /\ (args.op = "getFiberCenter" /\ ~IsNone(args.method)
                /\ \A n \in {sEdge, sCircle, sRadius, sGaussian} :
                       ~Contains(n, Val(args.method))) =>
              /\ result.err = Some("RuntimeError: Incorrect string for method type")
              /\ result.ran = {}
        /\ (args.op = "getFiberDiameter" /\ ~IsNone(args.method)
                /\ \A n \in {sEdge, sRadius, sGaussian} : ~Contains(n, Val(args.method))) =>
              /\ ~IsNone(result.err)
              /\ ~Contains(sCircle, Val(args.method)) =>
                    /\ result.err = Some("RuntimeError: Incorrect string for method type")
                    /\ result.ran = {}
        /\ (args.op \in {"getModalNoise", "modalNoise"}
                /\ ~(Len(args.method) >= 3
                     /\ \E n \in ModalPatterns : Contains(args.method, n))) =>
              /\ result.err = Some("ValueError: Incorrect string for method type")
              /\ IsNone(result.metric)
              /\ result.ran = {}

\* a modal-noise call that ran a metric is returning
ModalReturning ==
    /\ pc = "idle" /\ pc' = "returned"
    /\ args'.op \in {"getModalNoise", "modalNoise"}
    /\ ~IsNone(result'.metric)

\* the (y0, x0, radius) that getImageData hands to a metric run on self; no
\* fit is made on the way, every geometry it asks for being stored
ImageDataOf(self) == Val(getImageData(Start(self), None).ret)

\* the (y0, x0, radius) of the method named m
MethodData(self, m) ==
    [y0 |-> Val(CenterY(self, m)), x0 |-> Val(CenterX(self, m)),
     radius |-> Half(Val(Diameter(self, m)))]

\* C22: the center and the radius that a modal-noise method works with are
\* the center and the radius of one and the same estimation method, whatever
\* estimators were run on the image before.
C22_CenterAndRadiusOfOneMethod ==
    [][ ModalReturning =>
            \E m \in {sEdge, sCircle, sRadius, sGaussian} :
                /\ ~IsNone(CenterX(ia, m)) /\ ~IsNone(Diameter(ia, m))
                /\ ImageDataOf(ia) = MethodData(ia, m)
      ]_vars

\* What holds of getImageData: the center is the edge center, and the radius
\* is half the diameter of the first of radius, gaussian, edge that is
\* stored.
EdgeCenterWithPriorityRadius ==
    [][ ModalReturning =>
            LET stored(m) == ~IsNone(Diameter(ia, m))
                m == FirstStored(<<sRadius, sGaussian, sEdge>>, stored)
            IN  ImageDataOf(ia) = [y0 |-> Val(ia._center_y_edge),
                                   x0 |-> Val(ia._center_x_edge),
                                   radius |-> Half(Val(Diameter(ia, m)))]
      ]_vars

\* a call of getFiberCenter or getFiberDiameter is ending in `error`
Raising(error) ==
    /\ pc = "idle" /\ pc' = "returned"
    /\ args'.op \in {"getFiberCenter", "getFiberDiameter"}
    /\ result'.err = Some(error)

\* every stored center and diameter is after the step as it was before
GeometryUnchanged ==
    \A m \in {sEdge, sCircle, sRadius, sGaussian} : Geometry(ia', m) = Geometry(ia, m)

\* C23: when getFiberCenter or getFiberDiameter raises for an incorrect
\* method string or an incorrect units string, the call has changed no
\* stored geometry.
C23_ErrorLeavesGeometry ==
    [][ (\/ Raising("RuntimeError: Incorrect string for method type")
         \/ Raising("RuntimeError: Incorrect string for units"))
            => GeometryUnchanged ]_vars

\* What holds of the errors: the method error of getFiberCenter, and that of
\* getFiberDiameter for a string that does not contain circle, is raised
\* before any estimator runs; the units error is raised after the estimator
\* of the method has run, and the method error of getFiberDiameter for a
\* string that contains circle after the circle search has run.
ErrorAfterEstimators ==
    [][ /\ (/\ Raising("RuntimeError: Incorrect string for method type")
            /\ (args'.op = "getFiberCenter" \/ ~Contains(sCircle, Val(args'.method))))
               => (ia' = ia /\ result'.ran = {})
        /\ (/\ Raising("RuntimeError: Incorrect string for method type")
            /\ args'.op = "getFiberDiameter" /\ Contains(sCircle, Val(args'.method)))
               => "circle" \in result'.ran
        /\ (Raising("RuntimeError: Incorrect string for units") /\ ~GeometryUnchanged)
               => result'.ran # {}
      ]_vars

\* the name of the metric that a dispatcher reports as run
MetricName(metric) ==
    CASE metric = "tophat" -> sTophat
      [] metric = "fft" -> sFft
      [] metric = "polynomial" -> sPolynomial
      [] metric = "gaussian" -> sGaussian
      [] metric = "gradient" -> sGradient
      [] metric = "contrast" -> sContrast
      [] metric = "gini" -> sGini
      [] metric = "entropy" -> sEntropy

\* p is a prefix of s
IsPrefix(p, s) == Len(p) <= Len(s) /\ SubSeq(s, 1, Len(p)) = p

\* a modal-noise dispatcher has returned from a call that selected a metric
Selected ==
    /\ pc = "returned"
    /\ args.op \in {"getModalNoise", "modalNoise"}
    /\ ~IsNone(result.metric)

\* C26: the modal-noise dispatchers match a partial method string by prefix:
\* a string of at least 3 characters selects the method M only if it is a
\* prefix of the name of M.
C26_SelectedByPrefix ==
    Selected =>
        /\ Len(args.method) >= 3
        /\ IsPrefix(args.method, MetricName(Val(result.metric)))

\* What holds of the dispatchers: a string selects M only if it has at least
\* 3 characters and occurs anywhere in the name of M, or, for fft, anywhere
\* in 'fourier'.
SelectedBySubstring ==
    Selected =>
        /\ Len(args.method) >= 3
        /\ \/ Contains(args.method, MetricName(Val(result.metric)))
           \/ Val(result.metric) = "fft" /\ Contains(args.method, sFourier)

\* the output string that the metric of a returned dispatcher call was
\* given: the argument, or the default of the metric's signature
OutputGiven ==
    IF args.op = "getModalNoise" THEN args.output
    ELSE IF "output" \in DOMAIN args.kwargs THEN args.kwargs.output
    ELSE IF Val(result.metric) = "gradient" THEN sParameter ELSE sArray

\* a metric that takes an output argument was called with an output string
\* that matches neither 'array' nor 'parameter'
UnmatchedOutput ==
    /\ Selected
    /\ Val(result.metric) \in {"tophat", "gradient", "fft", "polynomial", "gaussian"}
    /\ OutputKind(OutputGiven) \in {"short", "neither"}

\* C27: every modal-noise method that takes an output argument raises
\* ValueError when the output string matches neither 'array' nor
\* 'parameter'; none of them returns normally.
C27_UnmatchedOutputRaises ==
    UnmatchedOutput => result.err = Some("ValueError: Incorrect output string")

\* What holds of the output string: tophat, polynomial and gaussian raise
\* ValueError in both implementations, and fft in the functions of
\* FiberProperties; gradient in both, and the fft method of the class,
\* return None for a string of 3 or more characters that matches neither.
UnmatchedOutputRaisesOrReturnsNone ==
    UnmatchedOutput =>
        IF /\ OutputKind(OutputGiven) = "neither"
           /\ \/ Val(result.metric) = "gradient"
              \/ Val(result.metric) = "fft" /\ args.op = "getModalNoise"
        THEN IsNone(result.err) /\ result.ret = Some(None)
        ELSE result.err = Some("ValueError: Incorrect output string")

(***************************************************************************)
(* BaseImage (fiber_properties/base_image.py): the calibration metadata of *)
(* an object built from an array, and the unit conversion                  *)
(***************************************************************************)
\* set_image_info(image_input), lines 116-123: the object after the call.
\* convert_image_to_array is called without set_attributes (line 117) and
\* changes no attribute.
set_image_info(self) ==
    IF IsNone(self.magnification)
    THEN IF self.camera = Some("nf") \/ self.camera = Some("in")
         THEN [self EXCEPT !.magnification = Some(10)]
         ELSE [self EXCEPT !.magnification = Some(1)]
    ELSE self

\* BaseImage(image_input, pixel_size, camera, magnification), lines 71-93
BaseImageInit(pixel_size, camera, magnification) ==
    set_image_info([pixel_size |-> pixel_size, camera |-> camera,
                    magnification |-> magnification, height |-> None, width |-> None])

\* get_pixel_size(), lines 247-249
get_pixel_size(st) ==
    IF IsNone(st.self.pixel_size)
    THEN Raise(st, "RuntimeError: Pixel Size needs to be set externally")
    ELSE Return(st, Val(st.self.pixel_size))

\* get_magnification(), lines 261-263
get_magnification(st) ==
    IF IsNone(st.self.magnification)
    THEN Raise(st, "RuntimeError: Magnification needs to be set externally")
    ELSE Return(st, Val(st.self.magnification))

\* containers.convert_pixels_to_units(value, pixel_size, magnification,
\* units): microns are pixels * pixel_size / magnification, and arithmetic
\* with None is a TypeError
PixelsToUnits(st, value, pixel_size, magnification, units) ==
    IF units = "pixels" THEN Return(st, value)
    ELSE IF units = "microns"
    THEN IF IsNone(pixel_size) \/ IsNone(magnification)
         THEN Raise(st, "TypeError: unsupported operand type(s)")
         ELSE Return(st, RoundDiv(value * Val(pixel_size), Val(magnification)))
    ELSE Raise(st, "RuntimeError: Incorrect string for units")

\* BaseImage.convert_pixels_to_units(value, units), lines 437-442
convert_pixels_to_units(st, value, units) ==
    PixelsToUnits(st, value, st.self.pixel_size, st.self.magnification, units)

(***************************************************************************)
(* SpecConfig: the construction of an ImageAnalysis or a BaseImage object  *)
(* from every combination of calibration arguments, and its first uses     *)
(***************************************************************************)
PixelSizes == {None, Some(3)}
Cameras == {None, Some("nf"), Some("in"), Some("ff"), Some("xx")}
Magnifications == {None, Some(2)}
\* what the header of the image file holds
Headers == {<<>>, [pixel_size |-> Some(5)], [camera |-> Some("ff")]}
Units == {"pixels", "microns", "inches"}

InitConfig ==
    /\ image = FiberImage
    /\ threshold = 1
    /\ ia = None
    /\ \E pixel_size \in PixelSizes, camera \in Cameras :
          \/ \E output_dict \in Headers :
                args = [class |-> "ImageAnalysis", pixel_size |-> pixel_size,
                        camera |-> camera, output_dict |-> output_dict]
          \/ \E magnification \in Magnifications :
                args = [class |-> "BaseImage", pixel_size |-> pixel_size,
                        camera |-> camera, magnification |-> magnification]
    /\ frame = None
    /\ result = None
    /\ pc = "new"

\* what a use of the constructed object leaves behind
Used(op, units, r) ==
    /\ ia' = r.self
    /\ result' = [op |-> op, units |-> units, ret |-> r.ret, err |-> r.err]
    /\ UNCHANGED <<image, threshold, args, frame, pc>>

\* ImageAnalysis(image_input, pixel_size=..., camera=..., threshold=1)
ConstructImageAnalysis ==
    /\ pc = "new" /\ args.class = "ImageAnalysis"
    /\ \E r \in {ImageAnalysisInit(image, threshold, args.pixel_size, args.camera,
                                   args.output_dict)} :
          /\ ia' = IF IsNone(r.err) THEN r.self ELSE None
          /\ pc' = IF IsNone(r.err) THEN "constructed" ELSE "failed"
          /\ result' = [op |-> "__init__", units |-> None, ret |-> None, err |-> r.err]
    /\ UNCHANGED <<image, threshold, args, frame>>

\* BaseImage(image_input, pixel_size=..., camera=..., magnification=...)
ConstructBaseImage ==
    /\ pc = "new" /\ args.class = "BaseImage"
    /\ ia' = BaseImageInit(args.pixel_size, args.camera, args.magnification)
    /\ pc' = "constructed"
    /\ result' = [op |-> "__init__", units |-> None, ret |-> None, err |-> None]
    /\ UNCHANGED <<image, threshold, args, frame>>

\* ia.getFiberDiameter(units=units)
ImageAnalysisDiameter ==
    /\ pc = "constructed" /\ args.class = "ImageAnalysis"
    /\ \E units \in Units :
          Used("getFiberDiameter", units,
               getFiberDiameter(Start(ia), None, DefaultTol, None, units, None))

\* ia.getFiberCenter(units=units)
ImageAnalysisCenter ==
    /\ pc = "constructed" /\ args.class = "ImageAnalysis"
    /\ \E units \in Units :
          Used("getFiberCenter", units,
               getFiberCenter(Start(ia), None, DefaultTol, None, units, None))

\* image.convert_pixels_to_units(value, units), value 1 or 3 pixels
BaseImageConvert ==
    /\ pc = "constructed" /\ args.class = "BaseImage"
    /\ \E value \in {Scale, 3 * Scale}, units \in Units :
          Used("convert_pixels_to_units", units,
               convert_pixels_to_units(Start(ia), value, units))

\* image.get_pixel_size()
BaseImageGetPixelSize ==
    /\ pc = "constructed" /\ args.class = "BaseImage"
    /\ Used("get_pixel_size", None, get_pixel_size(Start(ia)))

\* image.get_magnification()
BaseImageGetMagnification ==
    /\ pc = "constructed" /\ args.class = "BaseImage"
    /\ Used("get_magnification", None, get_magnification(Start(ia)))

NextConfig ==
    \/ ConstructImageAnalysis
    \/ ConstructBaseImage
    \/ ImageAnalysisDiameter
    \/ ImageAnalysisCenter
    \/ BaseImageConvert
    \/ BaseImageGetPixelSize
    \/ BaseImageGetMagnification

SpecConfig == InitConfig /\ [][NextConfig]_vars

\* the constructor was given a pixel size, by argument or by the header
PixelSizeResolved ==
    \/ ~IsNone(args.pixel_size)
    \/ args.class = "ImageAnalysis" /\ "pixel_size" \in DOMAIN args.output_dict

\* the camera identifier the object ends up with
CameraGiven ==
    IF args.class = "ImageAnalysis" /\ "camera" \in DOMAIN args.output_dict
    THEN args.output_dict.camera ELSE args.camera

\* the constructor was given a magnification, or a camera that has one
MagnificationResolved ==
    \/ args.class = "BaseImage" /\ ~IsNone(args.magnification)
    \/ CameraGiven \in {Some("nf"), Some("in"), Some("ff")}

\* C10: an object whose pixel_size or magnification is unresolved is never
\* put to use: its construction fails, or else every request for the
\* unresolved value and every conversion to microns ends in an error.
C10_UnresolvedIsFatal ==
    (pc = "constructed" /\ result.op # "__init__") =>
        /\ (~PixelSizeResolved /\ result.op = "get_pixel_size") => ~IsNone(result.err)
        /\ (~MagnificationResolved /\ result.op = "get_magnification") =>
              ~IsNone(result.err)
        /\ (~(PixelSizeResolved /\ MagnificationResolved) /\ result.units = "microns") =>
              ~IsNone(result.err)

(***************************************************************************)
(* The arithmetic of the modal-noise parameters: the Gini helpers          *)
(* ModalNoise.getGiniCoefficient (ModalNoise.py) and _gini_coefficient     *)
(* (FiberProperties/ModalNoise.py), and the stdev / mean ratios of the     *)
(* tophat and gradient parameters.  An array is a function on 0..(n-1)     *)
(* holding the raveled intensities of the selected region, as integers.    *)
(* A float is kept exactly, as a fraction in lowest terms, or as nan or    *)
(* inf.                                                                    *)
(***************************************************************************)
\* the longest array, and the largest intensity
MaxArrayLen == 3
MaxIntensity == 3

RECURSIVE GCD(_, _)
GCD(a, b) == IF b = 0 THEN a ELSE GCD(b, a % b)

NaN == [kind |-> "nan", num |-> 0, den |-> 0]
Inf == [kind |-> "inf", num |-> 1, den |-> 0]
Finite(num, den) ==
    [kind |-> "finite", num |-> num \div GCD(num, den), den |-> den \div GCD(num, den)]

\* a / b for numpy floats a >= 0 and b >= 0: a division by zero gives nan or
\* inf (and a RuntimeWarning), never an exception
FloatDivide(a, b) ==
    IF b = 0 THEN (IF a = 0 THEN NaN ELSE Inf) ELSE Finite(a, b)

\* test_array.size
Size(a) == Cardinality(DOMAIN a)

\* np.abs(test_array[i] - test_array).sum()
RECURSIVE AbsDifferenceSum(_, _, _)
AbsDifferenceSum(a, i, j) ==
    IF j = Size(a) THEN 0 ELSE Abs(a[i] - a[j]) + AbsDifferenceSum(a, i, j + 1)

\* test_array.sum(), and the sum of the squares
RECURSIVE ArraySum(_, _)
ArraySum(a, j) == IF j = Size(a) THEN 0 ELSE a[j] + ArraySum(a, j + 1)

RECURSIVE SquareSum(_, _)
SquareSum(a, j) == IF j = Size(a) THEN 0 ELSE a[j] * a[j] + SquareSum(a, j + 1)

\* ModalNoise.py lines 43-45: the loop from index i on, gini_coeff so far
RECURSIVE getGiniCoefficientLoop(_, _, _)
getGiniCoefficientLoop(test_array, i, gini_coeff) ==
    IF i = Size(test_array) THEN gini_coeff
    ELSE getGiniCoefficientLoop(test_array, i + 1,
                                gini_coeff + AbsDifferenceSum(test_array, i, 0))

\* the helper with the array's size left out of norm
getGiniCoefficientNormWithoutSize(test_array) ==
    FloatDivide(getGiniCoefficientLoop(test_array, 0, 0), 2 * ArraySum(test_array, 0))

\* ModalNoise.getGiniCoefficient(test_array), ModalNoise.py lines 42-48
getGiniCoefficient(test_array) ==
    FloatDivide(getGiniCoefficientLoop(test_array, 0, 0),
                2 * ArraySum(test_array, 0) * Size(test_array))

\* FiberProperties/ModalNoise.py lines 359-361: the loop from index i on
RECURSIVE _gini_coefficient_loop(_, _, _)
_gini_coefficient_loop(test_array, i, gini_coeff) ==
    IF i = Size(test_array) THEN gini_coeff
    ELSE _gini_coefficient_loop(test_array, i + 1,
                                gini_coeff + AbsDifferenceSum(test_array, i, 0))

\* _gini_coefficient(test_array), FiberProperties/ModalNoise.py lines 358-364
_gini_coefficient(test_array) ==
    FloatDivide(_gini_coefficient_loop(test_array, 0, 0),
                2 * ArraySum(test_array, 0) * Size(test_array))

\* n^2 times the variance of the array: n * sum(a^2) - sum(a)^2
VarianceTimesSizeSquared(a) ==
    Size(a) * SquareSum(a, 0) - ArraySum(a, 0) * ArraySum(a, 0)

\* intensity_array.std() / intensity_array.mean(), ModalNoise.py line 128 and
\* FiberProperties/ModalNoise.py line 180: the kind of the quotient, and for
\* a finite quotient its square
TophatParameter(intensity_array) ==
    FloatDivide(VarianceTimesSizeSquared(intensity_array),
                ArraySum(intensity_array, 0) * ArraySum(intensity_array, 0))

\* intensity_array.std() / image_intensity_array.mean(), ModalNoise.py line
\* 166 and FiberProperties/ModalNoise.py line 221, for the gradient
\* magnitudes and the intensities of one region: the kind of the quotient,
\* and for a finite quotient its square
GradientParameter(intensity_array, image_intensity_array) ==
    FloatDivide(VarianceTimesSizeSquared(intensity_array),
                ArraySum(image_intensity_array, 0) * ArraySum(image_intensity_array, 0))

(***************************************************************************)
(* SpecMetric: the intensities of one region, and the Gini helpers and the *)
(* tophat and gradient parameters computed from them, in any order.        *)
(* args holds the arrays, result what each computation returned.           *)
(***************************************************************************)
\* the largest gradient magnitude
MaxGradient == 1

\* the arrays of intensities of a region
IntensityArrays == UNION {[0..(n-1) -> 0..MaxIntensity] : n \in 1..MaxArrayLen}

InitMetric ==
    /\ image = None
    /\ threshold = 0
    /\ ia = None
    /\ frame = None
    /\ \E a \in IntensityArrays : \E g \in [DOMAIN a -> 0..MaxGradient] :
          args = [test_array |-> a, gradient_array |-> g]
    /\ result = [getGiniCoefficient |-> None, _gini_coefficient |-> None,
                 tophat |-> None, gradient |-> None]
    /\ pc = "metric"

\* ModalNoise.getGiniCoefficient(test_array), as getModalNoiseGini calls it
GetGiniCoefficient ==
    /\ pc = "metric"
    /\ IsNone(result.getGiniCoefficient)
    /\ result' = [result EXCEPT
                    !.getGiniCoefficient = Some(getGiniCoefficient(args.test_array))]
    /\ UNCHANGED <<image, threshold, ia, args, frame, pc>>

\* _gini_coefficient(test_array), as _modalNoiseGini calls it
GiniCoefficient ==
    /\ pc = "metric"
    /\ IsNone(result._gini_coefficient)
    /\ result' = [result EXCEPT
                    !._gini_coefficient = Some(_gini_coefficient(args.test_array))]
    /\ UNCHANGED <<image, threshold, ia, args, frame, pc>>

\* the 'parameter' branch of getModalNoiseTophat and of _modalNoiseTophat
GetTophatParameter ==
    /\ pc = "metric"
    /\ IsNone(result.tophat)
    /\ result' = [result EXCEPT !.tophat = Some(TophatParameter(args.test_array))]
    /\ UNCHANGED <<image, threshold, ia, args, frame, pc>>

\* the 'parameter' branch of getModalNoiseGradient and of _modalNoiseGradient
GetGradientParameter ==
    /\ pc = "metric"
    /\ IsNone(result.gradient)
    /\ result' = [result EXCEPT
                    !.gradient = Some(GradientParameter(args.gradient_array, args.test_array))]
    /\ UNCHANGED <<image, threshold, ia, args, frame, pc>>

NextMetric ==
    \/ GetGiniCoefficient
    \/ GiniCoefficient
    \/ GetTophatParameter
    \/ GetGradientParameter

SpecMetric == InitMetric /\ [][NextMetric]_vars

(***************************************************************************)
(* Properties of SpecMetric                                                *)
(***************************************************************************)
\* the computations of SpecMetric, and the two that are Gini helpers
MetricOps == {"getGiniCoefficient", "_gini_coefficient", "tophat", "gradient"}
GiniOps == {"getGiniCoefficient", "_gini_coefficient"}

\* the computation op has returned the float v
Returned(op, v) == ~IsNone(result[op]) /\ Val(result[op]) = v

\* the intensities of the region sum to a positive value
PositiveSum == ArraySum(args.test_array, 0) > 0

\* C11: when the intensities of the region sum to zero, the tophat and
\* gradient parameters and the Gini coefficient end in an error: none of
\* them returns a float, be it nan, inf or finite.
C11_ZeroSumIsAnError ==
    ~PositiveSum => \A op \in MetricOps : IsNone(result[op])

\* the sum over i and j of |a_i - a_j|
PairwiseAbsSum(a) ==
    LET pairs == (DOMAIN a) \X (DOMAIN a)
    IN  SumOver([p \in pairs |-> Abs(a[p[1]] - a[p[2]])], pairs)

\* (sum over i and j of |a_i - a_j|) / (2 * n * sum of a_i), in lowest terms
GiniFormula(a) ==
    LET num == PairwiseAbsSum(a)
        den == 2 * Size(a) * ArraySum(a, 0)
        g == GCD(num, den)
    IN  [kind |-> "finite", num |-> num \div g, den |-> den \div g]

\* C12: for an array of nonnegative values with positive sum, each Gini
\* helper returns (sum over i and j of |a_i - a_j|) / (2 * n * sum of a_i),
\* and the two helpers return the same value.
C12_GiniFormula ==
    PositiveSum =>
        /\ \A op \in GiniOps :
              ~IsNone(result[op]) => Val(result[op]) = GiniFormula(args.test_array)
        /\ (\A op \in GiniOps : ~IsNone(result[op])) =>
              result.getGiniCoefficient = result._gini_coefficient

\* both helpers have returned, for an array of unequal values
C12_Witness ==
    /\ PositiveSum
    /\ \A op \in GiniOps : ~IsNone(result[op]) /\ Val(result[op]).num > 0

\* the float v is a number in the range 0 <= v <= 1
InUnitRange(v) == v.kind = "finite" /\ 0 <= v.num /\ v.num <= v.den

\* C13: for any array of nonnegative values, the Gini coefficient returned
\* lies in the range 0 <= gini <= 1.
C13_GiniInUnitRange ==
    \A op \in GiniOps : ~IsNone(result[op]) => InUnitRange(Val(result[op]))

\* for an array with positive sum the Gini coefficient returned lies in the
\* range 0 <= gini <= 1
GiniInUnitRangeForPositiveSum ==
    PositiveSum => \A op \in GiniOps : ~IsNone(result[op]) => InUnitRange(Val(result[op]))

\* every value of the array is the same
IsConstant(a) == \A i, j \in DOMAIN a : a[i] = a[j]

\* at most one value of the array is not zero
AllMassInOneElement(a) == Cardinality({i \in DOMAIN a : a[i] # 0}) <= 1

\* C14: the Gini coefficient of a constant array is 0, and the Gini
\* coefficient of an array of n values with all mass in one element is
\* (n-1)/n.
C14_GiniOfConstantAndOfSingleMass ==
    \A op \in GiniOps :
        /\ (IsConstant(args.test_array) /\ ~IsNone(result[op])) =>
              Val(result[op]) = [kind |-> "finite", num |-> 0, den |-> 1]
        /\ (AllMassInOneElement(args.test_array) /\ ~IsConstant(args.test_array)
                /\ ~IsNone(result[op])) =>
              /\ Val(result[op]).kind = "finite"
              /\ Val(result[op]).num * Size(args.test_array)
                    = (Size(args.test_array) - 1) * Val(result[op]).den

\* the same for the arrays with positive sum
GiniOfConstantAndOfSingleMassForPositiveSum ==
    PositiveSum => C14_GiniOfConstantAndOfSingleMass

(***************************************************************************)
(* The Gaussian method, in Spec.  The fitter (getGaussianFit of            *)
(* NumpyArrayHandler) fits A * exp(-((x-x0)^2 + (y-y0)^2) / (2*sigma^2))   *)
(* + offset and returns the parameter vector (x0, y0, sigma, A, offset),   *)
(* of which the model keeps the first three.                               *)
(***************************************************************************)
\* the sigma of the fitted surface
FittedSigma(opt_parameters) == opt_parameters[2]

\* the Gaussian method has run on the object
GaussianStored == ~IsNone(ia._gaussian_fit)

GaussianGeometryStored ==
    GaussianStored =>
        /\ ia._center_x_gaussian = Some(Val(ia._gaussian_fit)[0])
        /\ ia._center_y_gaussian = Some(Val(ia._gaussian_fit)[1])
        /\ ia._fiber_diameter_gaussian = Some(2 * FittedSigma(Val(ia._gaussian_fit)))

(***************************************************************************)
(* SpecRegion: the circular regions of the 'parameter' branch of the       *)
(* polynomial and gaussian modal-noise methods, of ModalNoise.py and of    *)
(* FiberProperties/ModalNoise.py.  A radius is kept by its square, an      *)
(* exact fraction, so that the factors sqrt(2) stay exact.                 *)
(***************************************************************************)
\* the largest fiber radius, in pixels
MaxRegionRadius == 6

\* radius_factor: the default 0.95, and 1 and 0.9
RadiusFactors == {[num |-> 19, den |-> 20], [num |-> 1, den |-> 1], [num |-> 9, den |-> 10]}

\* the square of the radius
Squared(radius) == Finite(radius * radius, 1)

\* the square of radius * radius_factor
TimesFactor(square, radius_factor) ==
    Finite(square.num * radius_factor.num * radius_factor.num,
           square.den * radius_factor.den * radius_factor.den)

\* the square of radius / np.sqrt(2), and of radius * np.sqrt(2)
OverSqrt2(square) == Finite(square.num, 2 * square.den)
TimesSqrt2(square) == Finite(2 * square.num, square.den)

\* what a 'parameter' branch returns: the radii (squared) of the regions of
\* the residual's stdev and of the image's mean, or the error it raises
RegionsUsed(stdev_radius, mean_radius) ==
    [err |-> None, stdev_radius |-> Some(stdev_radius), mean_radius |-> Some(mean_radius)]
RegionError(error) == [err |-> Some(error), stdev_radius |-> None, mean_radius |-> None]

\* ModalNoise.getModalNoisePolynomial(output='parameter'), lines 273-293
getModalNoisePolynomialRegions(radius, radius_factor) ==
    LET regions(cropped) == RegionsUsed(TimesSqrt2(cropped), TimesSqrt2(cropped))
    IN  regions(OverSqrt2(TimesFactor(Squared(radius), radius_factor)))

\* ModalNoise.getModalNoiseGaussian(output='parameter'), lines 321-337: the
\* name gauss of line 337 is bound nowhere
getModalNoiseGaussianRegions(radius, radius_factor) ==
    RegionError("NameError: global name 'gauss' is not defined")

\* _modalNoisePolynomial(output='parameter'), lines 251-271
modalNoisePolynomialRegions(radius, radius_factor) ==
    LET regions(cropped) == RegionsUsed(TimesSqrt2(cropped), TimesSqrt2(cropped))
    IN  regions(OverSqrt2(TimesFactor(Squared(radius), radius_factor)))

\* _modalNoiseGaussian(output='parameter'), lines 302-323
modalNoiseGaussianRegions(radius, radius_factor) ==
    LET regions(cropped) == RegionsUsed(cropped, cropped)
    IN  regions(OverSqrt2(TimesFactor(Squared(radius), radius_factor)))

InitRegion ==
    /\ image = None
    /\ threshold = 0
    /\ ia = None
    /\ frame = None
    /\ \E radius \in 1..MaxRegionRadius, radius_factor \in RadiusFactors :
          args = [radius |-> radius, radius_factor |-> radius_factor]
    /\ result = [getModalNoisePolynomial |-> None, getModalNoiseGaussian |-> None,
                 _modalNoisePolynomial |-> None, _modalNoiseGaussian |-> None]
    /\ pc = "region"

\* ModalNoise(ia).getModalNoisePolynomial(output='parameter')
GetModalNoisePolynomial ==
    /\ pc = "region"
    /\ IsNone(result.getModalNoisePolynomial)
    /\ result' = [result EXCEPT !.getModalNoisePolynomial =
                    Some(getModalNoisePolynomialRegions(args.radius, args.radius_factor))]
    /\ UNCHANGED <<image, threshold, ia, args, frame, pc>>

\* ModalNoise(ia).getModalNoiseGaussian(output='parameter')
GetModalNoiseGaussian ==
    /\ pc = "region"
    /\ IsNone(result.getModalNoiseGaussian)
    /\ result' = [result EXCEPT !.getModalNoiseGaussian =
                    Some(getModalNoiseGaussianRegions(args.radius, args.radius_factor))]
    /\ UNCHANGED <<image, threshold, ia, args, frame, pc>>

\* _modalNoisePolynomial(ia, output='parameter')
ModalNoisePolynomial ==
    /\ pc = "region"
    /\ IsNone(result._modalNoisePolynomial)
    /\ result' = [result EXCEPT !._modalNoisePolynomial =
                    Some(modalNoisePolynomialRegions(args.radius, args.radius_factor))]
    /\ UNCHANGED <<image, threshold, ia, args, frame, pc>>

\* _modalNoiseGaussian(ia, output='parameter')
ModalNoiseGaussian ==
    /\ pc = "region"
    /\ IsNone(result._modalNoiseGaussian)
    /\ result' = [result EXCEPT !._modalNoiseGaussian =
                    Some(modalNoiseGaussianRegions(args.radius, args.radius_factor))]
    /\ UNCHANGED <<image, threshold, ia, args, frame, pc>>

NextRegion ==
    \/ GetModalNoisePolynomial
    \/ GetModalNoiseGaussian
    \/ ModalNoisePolynomial
    \/ ModalNoiseGaussian

SpecRegion == InitRegion /\ [][NextRegion]_vars

\* the four 'parameter' computations of SpecRegion
RegionOps ==
    {"getModalNoisePolynomial", "getModalNoiseGaussian",
     "_modalNoisePolynomial", "_modalNoiseGaussian"}

\* the square of radius * radius_factor / sqrt(2)
ClaimedRegion == OverSqrt2(TimesFactor(Squared(args.radius), args.radius_factor))

\* C16: the polynomial and the gaussian parameters are computed over the
\* same circular region, of radius radius * factor / sqrt(2): the residual's
\* stdev and the image's mean are both taken inside that region.
C16_SameRegion ==
    \A op \in RegionOps :
        ~IsNone(result[op]) =>
            /\ IsNone(Val(result[op]).err)
            /\ Val(result[op]).stdev_radius = Some(ClaimedRegion)
            /\ Val(result[op]).mean_radius = Some(ClaimedRegion)

\* in each computation that returns, the residual's stdev and the image's
\* mean are taken inside one and the same region
StdevAndMeanShareRegion ==
    \A op \in RegionOps :
        (~IsNone(result[op]) /\ IsNone(Val(result[op]).err)) =>
            Val(result[op]).stdev_radius = Val(result[op]).mean_radius

(***************************************************************************)
(* BaseImage (fiber_properties/base_image.py): the image input and its     *)
(* conversion to an array.  An image input is None, a file name, a         *)
(* sequence of file names, a 2D array, or a sequence of 2D arrays; `files` *)
(* maps the name of a file to the float64 image it holds.  A float array   *)
(* is a function from rows to columns to exact floats.                     *)
(***************************************************************************)
MaxImages == 3

FileNames(names) == [kind |-> "files", names |-> names]
Array2D(array) == [kind |-> "array", array |-> array]
Arrays2D(arrays) == [kind |-> "arrays", arrays |-> arrays]

\* a / list_len and a + b of two floats
FloatOverLen(a, list_len) == Finite(a.num, a.den * list_len)
FloatAdd(a, b) == Finite(a.num * b.den + b.num * a.den, a.den * b.den)

\* image / list_len and image + other, element by element
ArrayOverLen(img, list_len) ==
    [y \in DOMAIN img |-> [x \in DOMAIN img[y] |-> FloatOverLen(img[y][x], list_len)]]
ArrayAdd(img, other) ==
    [y \in DOMAIN img |-> [x \in DOMAIN img[y] |-> FloatAdd(img[y][x], other[y][x])]]

\* lines 330-331: the loop over the file names from the i-th on; image is the
\* sum so far
RECURSIVE FilesLoop(_, _, _, _, _)
FilesLoop(files, names, list_len, i, img) ==
    IF i > Len(names) THEN img
    ELSE FilesLoop(files, names, list_len, i + 1,
                   ArrayAdd(img, ArrayOverLen(files[names[i]], list_len)))

\* lines 344-345: the loop over the arrays from the i-th on.  The loop
\* variable is `image` itself: each pass binds image to image_input[i] and
\* then adds image / list_len to it.
RECURSIVE ArraysLoop(_, _, _, _)
ArraysLoop(arrays, list_len, i, img) ==
    IF i > Len(arrays) THEN img
    ELSE ArraysLoop(arrays, list_len, i + 1,
                    ArrayAdd(arrays[i], ArrayOverLen(arrays[i], list_len)))

\* lines 352-354: with set_attributes, the shape of the image is stored
StoreShape(self, img, set_attributes) ==
    IF set_attributes /\ ~IsNone(img)
    THEN [self EXCEPT !.height = Some(ImageHeight(Val(img))),
                      !.width = Some(ImageWidth(Val(img)))]
    ELSE self

\* lines 323-331, 335-337, 341-347: with set_attributes, num_images is stored
StoreNumImages(self, num_images, set_attributes) ==
    IF set_attributes THEN [self EXCEPT !.num_images = Some(num_images)] ELSE self

\* lines 308-354, after the branch for the type of the input has made
\* `image` of num_images images
Converted(self, img, num_images, set_attributes) ==
    [self |-> StoreShape(StoreNumImages(self, num_images, set_attributes),
                         img, set_attributes),
     image |-> img]

\* convert_image_to_array(image_input, return_image, set_attributes), lines
\* 308-355: the object after the call and the image returned.  The files
\* are read without their headers (set_attributes is False wherever the
\* model converts file names).
convert_image_to_array(self, image_input, return_image, set_attributes, files) ==
    CASE image_input.kind = "none" -> [self |-> self, image |-> None]
      [] image_input.kind = "files" ->
            Converted(self,
                      Some(FilesLoop(files, image_input.names, Len(image_input.names), 2,
                                     ArrayOverLen(files[image_input.names[1]],
                                                  Len(image_input.names)))),
                      Len(image_input.names), set_attributes)
      [] image_input.kind = "array" ->
            Converted(self, Some(image_input.array), 1, set_attributes)
      [] image_input.kind = "arrays" ->
            Converted(self,
                      Some(ArraysLoop(image_input.arrays, Len(image_input.arrays), 2,
                                      ArrayOverLen(image_input.arrays[1],
                                                   Len(image_input.arrays)))),
                      Len(image_input.arrays), set_attributes)

\* __init__, lines 71-90: the attributes before set_image_info
NewBaseImage(image_input) ==
    [image_input |-> image_input, pixel_size |-> None, camera |-> None,
     magnification |-> None, image_file |-> None, height |-> None, width |-> None,
     num_images |-> None]

\* set_image_info(image_input), lines 116-123, with the conversion of line
\* 117: self.convert_image_to_array(image_input, True) binds True to
\* return_image, and set_attributes keeps its default, False
set_image_info_of(self, image_input, files) ==
    set_image_info(convert_image_to_array(self, image_input, TRUE, FALSE, files).self)

\* BaseImage(image_input), image_data=None, lines 71-93
BaseImageFrom(image_input, files) ==
    set_image_info_of(NewBaseImage(image_input), image_input, files)

\* get_image(), lines 105-107 (image_file is set by save_image only)
get_image(self, files) ==
    convert_image_to_array(self, self.image_input, TRUE, FALSE, files)

(***************************************************************************)
(* SpecImage: a BaseImage object built from an array, from a sequence of   *)
(* arrays or from a sequence of file names, then asked for its image or    *)
(* converted once more with set_attributes=True                            *)
(***************************************************************************)
\* the float arrays of h rows and w columns with values 0..MaxPixel
FloatArrays(h, w) == [0..(h-1) -> [0..(w-1) -> {Finite(v, 1) : v \in 0..MaxPixel}]]

\* the shapes of the arrays: 1 x 2 and 2 x 1
Shapes == {<<1, 2>>, <<2, 1>>}

\* sequences of 1..MaxImages arrays of one shape
ArraySequences ==
    UNION {[1..k -> FloatArrays(sh[1], sh[2])] : k \in 1..MaxImages, sh \in Shapes}

\* the files on disk: three images of 1 x 2 pixels
Files ==
    [n \in {"a.fit", "b.fit", "c.fit"} |->
        [y \in 0..0 |-> [x \in 0..1 |->
            Finite(CASE n = "a.fit" -> x [] n = "b.fit" -> MaxPixel [] OTHER -> 1 - x, 1)]]]

\* sequences of 1..MaxImages file names
FileSequences == UNION {[1..k -> DOMAIN Files] : k \in 1..MaxImages}

InitImage ==
    /\ image = None
    /\ threshold = 0
    /\ ia = None
    /\ \/ \E sh \in Shapes : \E a \in FloatArrays(sh[1], sh[2]) :
             args = [image_input |-> Array2D(a)]
       \/ \E arrays \in ArraySequences : args = [image_input |-> Arrays2D(arrays)]
       \/ \E names \in FileSequences : args = [image_input |-> FileNames(names)]
    /\ frame = None
    /\ result = None
    /\ pc = "new"

\* BaseImage(image_input)
ConstructBaseImageFrom ==
    /\ pc = "new"
    /\ ia' = BaseImageFrom(args.image_input, Files)
    /\ pc' = "constructed"
    /\ UNCHANGED <<image, threshold, args, frame, result>>

\* image.get_image()
GetImage ==
    /\ pc = "constructed"
    /\ \E r \in {get_image(ia, Files)} :
          /\ ia' = r.self
          /\ result' = [op |-> "get_image", image |-> r.image]
    /\ pc' = "returned"
    /\ UNCHANGED <<image, threshold, args, frame>>

\* image.convert_image_to_array(image.image_input, set_attributes=True), for
\* an object made from arrays
ConvertImageToArray ==
    /\ pc = "constructed"
    /\ args.image_input.kind \in {"array", "arrays"}
    /\ \E r \in {convert_image_to_array(ia, ia.image_input, TRUE, TRUE, Files)} :
          /\ ia' = r.self
          /\ result' = [op |-> "convert_image_to_array", image |-> r.image]
    /\ pc' = "returned"
    /\ UNCHANGED <<image, threshold, args, frame>>

NextImage ==
    \/ ConstructBaseImageFrom
    \/ GetImage
    \/ ConvertImageToArray

SpecImage == InitImage /\ [][NextImage]_vars

\* the element-wise sum of the arrays from the i-th on, each divided by k
RECURSIVE AverageFrom(_, _, _)
AverageFrom(arrays, i, k) ==
    IF i = Len(arrays) THEN ArrayOverLen(arrays[i], k)
    ELSE ArrayAdd(ArrayOverLen(arrays[i], k), AverageFrom(arrays, i + 1, k))

\* files named 1..k that hold the arrays, and the sequence of their names
FilesHolding(arrays) == [n \in 1..Len(arrays) |-> arrays[n]]
NamesOf(arrays) == [n \in 1..Len(arrays) |-> n]

\* get_image has returned the image of an object made from a sequence of
\* arrays
ArraysConverted ==
    /\ pc = "returned"
    /\ result.op = "get_image"
    /\ args.image_input.kind = "arrays"

\* C29: for a sequence of k 2D arrays of equal shape, convert_image_to_array
\* returns the element-wise sum of the arrays each divided by k, which is
\* also what it returns for k file names that hold the arrays.
C29_SequenceOfArraysAveraged ==
    ArraysConverted =>
        /\ result.image = Some(AverageFrom(args.image_input.arrays, 1,
                                           Len(args.image_input.arrays)))
        /\ result.image
              = convert_image_to_array(ia, FileNames(NamesOf(args.image_input.arrays)),
                                       TRUE, FALSE,
                                       FilesHolding(args.image_input.arrays)).image

\* What holds of the conversion: k file names give the average of their
\* images; k arrays give the first array for k = 1, and for k >= 2 the last
\* array times (1 + 1/k).
FilesAveragedArraysNot ==
    (pc = "returned" /\ result.op = "get_image") =>
        /\ args.image_input.kind = "files" =>
              result.image = Some(AverageFrom([n \in 1..Len(args.image_input.names) |->
                                                  Files[args.image_input.names[n]]],
                                              1, Len(args.image_input.names)))
        /\ args.image_input.kind = "arrays" =>
              LET arrays == args.image_input.arrays
                  k == Len(arrays)
              IN  result.image =
                      Some(IF k = 1 THEN arrays[1]
                           ELSE [y \in DOMAIN arrays[k] |-> [x \in DOMAIN arrays[k][y] |->
                                    Finite(arrays[k][y][x].num * (k + 1),
                                           arrays[k][y][x].den * k)]])

\* C30: after a BaseImage is constructed from a 2D array with
\* image_data=None, its height and width are the shape of the array and
\* num_images is set.
C30_ShapeStoredOnConstruction ==
    (pc = "constructed" /\ args.image_input.kind = "array") =>
        /\ ia.height = Some(ImageHeight(args.image_input.array))
        /\ ia.width = Some(ImageWidth(args.image_input.array))
        /\ ~IsNone(ia.num_images)

\* What holds of the attributes: construction leaves height, width and
\* num_images at None; a conversion with set_attributes=True stores the
\* shape and num_images = 1 for a 2D array.
ShapeStoredOnlyWithSetAttributes ==
    /\ pc = "constructed" =>
          IsNone(ia.height) /\ IsNone(ia.width) /\ IsNone(ia.num_images)
    /\ (/\ pc = "returned" /\ result.op = "convert_image_to_array"
        /\ args.image_input.kind = "array") =>
          /\ ia.height = Some(ImageHeight(args.image_input.array))
          /\ ia.width = Some(ImageWidth(args.image_input.array))
          /\ ia.num_images = Some(1)

====
